---- MODULE Spec2Model ----
(***************************************************************************)
(* Panel header actions of the Perses dashboard UI: the classification of  *)
(* query-result payloads, their CSV export, and the width-bucketed layout  *)
(* of the header's action icons.                                           *)
(*                                                                         *)
(* The sources hold several variants of PanelHeader / PanelActions.  The   *)
(* variable `variant` says which pair is mounted:                          *)
(*   "second"      part_000:1-330    + part_001:685-1315                   *)
(*   "first"       part_000:331-551  + part_001:1-683 (stashed side)       *)
(*   "passthrough" ui/.../PanelHeader.tsx + part_001:1-683 (stashed side)  *)
(*   "upstream"    part_000:331-551  + part_001:1-683 (upstream side)      *)
(***************************************************************************)
EXTENDS Integers, Sequences, FiniteSets, TLC

VARIABLES
    variant,        \* which PanelHeader / PanelActions pair is mounted
    queryResults,   \* QueryData[] of the data-queries context (Panel.tsx:187)
    hint,           \* the dataType / panelType prop given to PanelHeader
    title,          \* the panel title
    editHandlers,   \* TRUE iff the editHandlers bundle is supplied
    readHandlers,   \* "none" | "notViewed" | "viewed"
    description,    \* "undefined" | "blank" | "text"
    links,          \* "undefined" | "empty" | "some"
    extra,          \* "none" | "element" | "string": the extra ReactNode
    bucket,         \* width bucket the container query selects
    hover,          \* TRUE iff the pointer is over the panel card
    anchorPosition, \* per bucket: TRUE iff that OverflowMenu's anchorPosition is set
    exported,       \* outcome of the last run of the CSV export click handler
    now,            \* the wall clock read by new Date(), in units of 10^4 ms
    memo            \* the useMemo cells of PanelHeader and PanelActions after the last render

vars == <<variant, queryResults, hint, title, editHandlers, readHandlers,
          description, links, extra, bucket, hover, anchorPosition, exported, now, memo>>

(***************************************************************************)
(* JavaScript values.  A property of an object is a record [k, a]: k says  *)
(* whether the key is absent, present with null, present with a truthy     *)
(* non-array plain object ("other"), or an array, whose elements are a.    *)
(***************************************************************************)
NoValue == "<undefined>"

Absent == [k |-> "absent", a |-> <<>>]

Null == [k |-> "null", a |-> <<>>]

Other == [k |-> "other", a |-> <<>>]

Arr(s) == [k |-> "array", a |-> s]

\* `key in obj`
HasKey(f) == f.k # "absent"

\* the property read as a condition: undefined and null are falsy
Truthy(f) == f.k \in {"other", "array"}

\* Array.isArray(obj.key)
IsArray(f) == f.k = "array"

\* One [timestamp, value] entry of series.values.  k = "pair" is an array of
\* length >= 2, "short" an array of length < 2, "null" a null entry.  tk is
\* the timestamp's type: a number, a date string, an unparsable string, or
\* anything else.
\* vk is the value's type: "num" or "undef".
Entry(tk, t, vk, v) == [k |-> "pair", tk |-> tk, t |-> t, vk |-> vk, v |-> v]

EntryShort == [k |-> "short", tk |-> "other", t |-> 0, vk |-> "undef", v |-> 0]

EntryNull == [k |-> "null", tk |-> "other", t |-> 0, vk |-> "undef", v |-> 0]

\* One element of a `series` array.
SeriesObj(name, values, data) ==
    [k |-> "obj", name |-> name, displayName |-> NoValue, values |-> values, data |-> data]

SeriesNull ==
    [k |-> "null", name |-> NoValue, displayName |-> NoValue, values |-> Absent, data |-> Absent]

\* A scalar cell: k is "str", "num", "null" or "undef"; s its string form as
\* a sequence of characters.
Cell(k, s) == [k |-> k, s |-> s]

CellUndef == Cell("undef", <<>>)

\* One element of `rows`, or one item of an array payload: an object is a
\* sequence of <<key, cell>> entries in insertion order.
RowObj(entries) == [k |-> "obj", entries |-> entries]

RowNull == [k |-> "null", entries |-> <<>>]

RowPrim == [k |-> "prim", entries |-> <<>>]

\* A row given as an array of cells (the first variant's TableData.rows)
RowArr(cells) == [k |-> "arr", entries |-> [i \in 1..Len(cells) |-> <<ToString(i - 1), cells[i]>>]]

\* One element of `columns`: an object {name, displayName?}, a plain string
\* (the first variant's TableData.columns), or null.
Column(name, displayName) == [k |-> "obj", name |-> name, displayName |-> displayName]

ColumnStr(name) == [k |-> "str", name |-> name, displayName |-> NoValue]

ColumnNull == [k |-> "null", name |-> NoValue, displayName |-> NoValue]

\* One flattened bar-chart tuple of `data`.
Tuple(category, value, series) == [category |-> category, value |-> value, series |-> series]

\* One element of a data array (series.data, dataset.data): a primitive
\* number y ("prim"), a [x, y] array ("pair"), an array shorter than two
\* ("short"), an object with x and y ("obj"; NoNum = undefined), or null.
NoNum == -1

Point(k, x, y) == [k |-> k, x |-> x, y |-> y]

Num(n) == Point("prim", NoNum, n)

\* One element of `datasets`.
Dataset(label, data) == [k |-> "obj", label |-> label, data |-> data]

DatasetNull == [k |-> "null", label |-> NoValue, data |-> Absent]

\* A query-result payload (QueryData.data).  k is "undefined", "prim" (a
\* truthy string or number), "array" (items) or "object" (the properties).
EmptyObj ==
    [k |-> "object", items |-> <<>>, series |-> Absent, columns |-> Absent,
     rows |-> Absent, categories |-> Absent, data |-> Absent, spans |-> Absent,
     labels |-> Absent, datasets |-> Absent]

Undef == [EmptyObj EXCEPT !.k = "undefined"]

Prim == [EmptyObj EXCEPT !.k = "prim"]

ArrayOf(items) == [EmptyObj EXCEPT !.k = "array", !.items = items]

\* One QueryData record of the context.
Query(data, isFetching, error) == [data |-> data, isFetching |-> isFetching, error |-> error]

(***************************************************************************)
(* Results of operations that may throw: Threw stands for an uncaught      *)
(* TypeError / RangeError leaving the function.                            *)
(***************************************************************************)
Threw == "<threw>"

\* the same for operations whose result is a property value
ThrewVal == [k |-> "threw", a |-> <<>>]

(***************************************************************************)
(* Type guards of the first variant (typeof-guarded, so they never throw). *)
(***************************************************************************)
isTimeSeriesData(p) == p.k = "object" /\ HasKey(p.series) /\ IsArray(p.series)

isBarChartData(p) ==
    /\ p.k = "object"
    /\ \/ HasKey(p.categories) /\ HasKey(p.series)
       \/ HasKey(p.data) /\ IsArray(p.data)

isTableData(p) == p.k = "object" /\ HasKey(p.columns) /\ HasKey(p.rows)

isTraceData(p) == p.k = "object" /\ HasKey(p.spans) /\ IsArray(p.spans)

(***************************************************************************)
(* extractDataForExport (PanelHeader, second variant).                     *)
(***************************************************************************)
\* barData.series.every(s => typeof s.name === 'string' && Array.isArray(s.data)):
\* "true", "false", or Threw when a null element is reached.
RECURSIVE EverySeriesIsBar(_, _)
EverySeriesIsBar(ss, i) ==
    IF i > Len(ss) THEN "true"
    ELSE IF ss[i].k = "null" THEN Threw
    ELSE IF ss[i].name # NoValue /\ IsArray(ss[i].data) THEN EverySeriesIsBar(ss, i + 1)
    ELSE "false"

\* Object.keys(firstItem).map(key => ({ name: key, displayName: key }))
KeysAsColumns(item) == [i \in 1..Len(item.entries) |-> Column(item.entries[i][1], item.entries[i][1])]

\* The label-derived name of dataset index i (1-based): label || `Dataset ${index + 1}`
DatasetLabels == <<"Dataset 1", "Dataset 2", "Dataset 3", "Dataset 4">>

\* dataObj.datasets.map(...) of the alternative bar chart format; Threw when
\* datasets has no map (not an array) or an element is null.
LabelsDatasetsSeries(ds) ==
    IF ~IsArray(ds) THEN ThrewVal
    ELSE IF \E i \in 1..Len(ds.a) : ds.a[i].k = "null" THEN ThrewVal
    ELSE Arr([i \in 1..Len(ds.a) |->
               [k |-> "obj",
                name |-> IF ds.a[i].label # NoValue THEN ds.a[i].label ELSE DatasetLabels[i],
                displayName |-> IF ds.a[i].label # NoValue THEN ds.a[i].label ELSE DatasetLabels[i],
                values |-> Absent,
                data |-> IF Truthy(ds.a[i].data) THEN ds.a[i].data ELSE Arr(<<>>)]])

\* point => (Array.isArray(point) && point.length >= 2) ||
\*          (typeof point === 'object' && (point.x !== undefined || point.t !== undefined))
PointLooksTimeLike(pt) ==
    IF pt.k = "pair" THEN "true"
    ELSE IF pt.k = "null" THEN Threw
    ELSE IF pt.k = "obj" /\ pt.x # NoNum THEN "true"
    ELSE "false"

\* Array.prototype.some over points, left to right, stopping at the first hit
RECURSIVE SomePointTimeLike(_, _)
SomePointTimeLike(pts, i) ==
    IF i > Len(pts) THEN "false"
    ELSE IF PointLooksTimeLike(pts[i]) = "false" THEN SomePointTimeLike(pts, i + 1)
    ELSE PointLooksTimeLike(pts[i])

\* dataset => dataset.data && Array.isArray(dataset.data) && dataset.data.some(...)
DatasetHasTimeData(d) ==
    IF d.k = "null" THEN Threw
    ELSE IF ~IsArray(d.data) THEN "false"
    ELSE SomePointTimeLike(d.data.a, 1)

RECURSIVE hasTimeData(_, _)
hasTimeData(ds, i) ==
    IF i > Len(ds) THEN "false"
    ELSE IF DatasetHasTimeData(ds[i]) = "false" THEN hasTimeData(ds, i + 1)
    ELSE DatasetHasTimeData(ds[i])

\* The point mapping of the alternative time series format:
\* arrays pass through; objects give [x || t || timestamp, y || value], so a
\* time or value of 0 is lost; other points give [0, point].
PointAsEntry(pt) ==
    IF pt.k = "pair" THEN Entry("num", pt.x, "num", pt.y)
    ELSE IF pt.k = "short" THEN EntryShort
    ELSE IF pt.k = "obj" THEN
        Entry(IF pt.x # NoNum /\ pt.x # 0 THEN "num" ELSE "other",
              IF pt.x # NoNum /\ pt.x # 0 THEN pt.x ELSE 0,
              IF pt.y # NoNum /\ pt.y # 0 THEN "num" ELSE "undef",
              IF pt.y # NoNum /\ pt.y # 0 THEN pt.y ELSE 0)
    ELSE Entry("num", 0, "num", pt.y)

\* dataObj.datasets.map(dataset => ({name, displayName, values: dataset.data.map(...)}));
\* Threw when a dataset is null, has no data array, or holds a null point.
DatasetsAsSeries(ds) ==
    IF \E i \in 1..Len(ds) :
           \/ ds[i].k = "null"
           \/ ~IsArray(ds[i].data)
           \/ \E j \in 1..Len(ds[i].data.a) : ds[i].data.a[j].k = "null"
    THEN ThrewVal
    ELSE Arr([i \in 1..Len(ds) |->
               [k |-> "obj",
                name |-> IF ds[i].label # NoValue THEN ds[i].label ELSE "Series",
                displayName |-> IF ds[i].label # NoValue THEN ds[i].label ELSE "Series",
                values |-> Arr([j \in 1..Len(ds[i].data.a) |-> PointAsEntry(ds[i].data.a[j])]),
                data |-> Absent]])

Hit(data, type) == [r |-> "hit", data |-> data, detectedType |-> type]

Skip == [r |-> "skip", data |-> Undef, detectedType |-> "unknown"]

Throws == [r |-> "throw", data |-> Undef, detectedType |-> "unknown"]

\* The body of the for-loop of extractDataForExport for one query.data
ExtractOne(p) ==
    IF p.k = "undefined" THEN Skip
    ELSE IF p.k = "prim" THEN Throws  \* 'series' in <primitive> is a TypeError
    ELSE IF HasKey(p.series) /\ IsArray(p.series) THEN Hit(p, "timeseries")
    ELSE IF HasKey(p.columns) /\ HasKey(p.rows) THEN Hit(p, "table")
    ELSE IF /\ HasKey(p.categories) /\ HasKey(p.series)
            /\ IsArray(p.categories) /\ IsArray(p.series)
            /\ EverySeriesIsBar(p.series.a, 1) # "false"
         THEN IF EverySeriesIsBar(p.series.a, 1) = Threw THEN Throws
              ELSE Hit([EmptyObj EXCEPT !.categories = p.categories, !.series = p.series],
                       "barchart")
    ELSE IF p.k = "array" /\ Len(p.items) > 0 /\ p.items[1].k = "obj"
         THEN Hit([EmptyObj EXCEPT !.columns = Arr(KeysAsColumns(p.items[1])),
                                   !.rows = Arr(p.items)], "table")
    ELSE IF Truthy(p.labels) /\ Truthy(p.datasets)
         THEN IF LabelsDatasetsSeries(p.datasets) = ThrewVal THEN Throws
              ELSE Hit([EmptyObj EXCEPT !.categories = p.labels,
                                        !.series = LabelsDatasetsSeries(p.datasets)],
                       "barchart")
    ELSE IF Truthy(p.datasets) /\ IsArray(p.datasets)
            /\ hasTimeData(p.datasets.a, 1) # "false"
         THEN IF hasTimeData(p.datasets.a, 1) = Threw
                 \/ DatasetsAsSeries(p.datasets.a) = ThrewVal
              THEN Throws
              ELSE Hit([EmptyObj EXCEPT !.series = DatasetsAsSeries(p.datasets.a)],
                       "timeseries")
    ELSE Skip

\* A scan of the result list in which the last matching result wins
RECURSIVE ExtractFromLast(_, _)
ExtractFromLast(results, i) ==
    IF i > Len(results) THEN Skip
    ELSE IF ExtractFromLast(results, i + 1).r # "skip" THEN ExtractFromLast(results, i + 1)
    ELSE ExtractOne(results[i].data)


RECURSIVE ExtractFrom(_, _)
ExtractFrom(results, i) ==
    IF i > Len(results) THEN Skip
    ELSE IF ExtractOne(results[i].data).r = "skip" THEN ExtractFrom(results, i + 1)
    ELSE ExtractOne(results[i].data)

extractDataForExport(results) == ExtractFrom(results, 1)

(***************************************************************************)
(* detectDataType / hasExportableData (PanelActions, second variant).      *)
(***************************************************************************)
detectDataType(p) ==
    IF p.k = "undefined" THEN "unknown"
    ELSE IF Truthy(p.series) /\ IsArray(p.series) /\ Len(p.series.a) > 0
            /\ p.series.a[1].k = "null"
         THEN Threw  \* firstSeries.values of null
    ELSE IF Truthy(p.series) /\ IsArray(p.series) /\ Len(p.series.a) > 0
            /\ Truthy(p.series.a[1].values) /\ IsArray(p.series.a[1].values)
         THEN "timeseries"
    ELSE IF /\ Truthy(p.columns) /\ IsArray(p.columns)
            /\ Truthy(p.rows) /\ IsArray(p.rows)
         THEN "table"
    ELSE IF /\ Truthy(p.categories) /\ IsArray(p.categories)
            /\ Truthy(p.series) /\ IsArray(p.series)
            /\ Len(p.series.a) > 0 /\ p.series.a[1].k = "obj"
            /\ Truthy(p.series.a[1].data) /\ IsArray(p.series.a[1].data)
         THEN "barchart"
    ELSE "unknown"

hasExportableData(p) ==
    IF detectDataType(p) = Threw THEN Threw
    ELSE IF detectDataType(p) # "unknown" THEN "true" ELSE "false"

(***************************************************************************)
(* Strings.  CSV text is a string; a cell's content is kept as a sequence  *)
(* of characters so that includes() and replace() can be computed.         *)
(***************************************************************************)
RECURSIVE Concat(_)
Concat(ss) == IF ss = <<>> THEN "" ELSE Head(ss) \o Concat(Tail(ss))

\* Array.prototype.join
RECURSIVE Join(_, _)
Join(ss, sep) ==
    IF ss = <<>> THEN ""
    ELSE IF Len(ss) = 1 THEN ss[1]
    ELSE ss[1] \o sep \o Join(Tail(ss), sep)

\* String.prototype.includes for one character
Includes(chars, c) == \E i \in 1..Len(chars) : chars[i] = c

\* value.replace(/"/g, '""')
ReplaceQuotes(chars) == Concat([i \in 1..Len(chars) |-> IF chars[i] = "\"" THEN "\"\"" ELSE chars[i]])

Pad2(n) == IF n < 10 THEN "0" \o ToString(n) ELSE ToString(n)

\* Time.  A timestamp number and an instant are counted in units of 10^4: the
\* number t of the model is the JavaScript number t * 10^4, and the instant
\* `when` lies when * 10^4 ms after the epoch.  SecondsLimit is the 1e10 of
\* exportTimeSeriesData in these units.
SecondsLimit == 1000000

\* new Date(when * 10^4).toISOString() for an instant from 1970 on, by the
\* proleptic Gregorian calendar (days since the epoch to year, month, day)
toISOString(when) ==
    LET secs == (when % 8640) * 10
        z == when \div 8640 + 719468
        era == z \div 146097
        doe == z % 146097
        yoe == (doe - doe \div 1460 + doe \div 36524 - doe \div 146096) \div 365
        doy == doe - (365 * yoe + yoe \div 4 - yoe \div 100)
        mp == (5 * doy + 2) \div 153
        d == doy - (153 * mp + 2) \div 5 + 1
        m == IF mp < 10 THEN mp + 3 ELSE mp - 9
        y == yoe + era * 400 + (IF m <= 2 THEN 1 ELSE 0)
    IN  ToString(y) \o "-" \o Pad2(m) \o "-" \o Pad2(d) \o "T"
          \o Pad2(secs \div 3600) \o ":" \o Pad2((secs \div 60) % 60) \o ":"
          \o Pad2(secs % 60) \o ".000Z"

\* String(point) of an element of a data array
PointStr(pt) ==
    IF pt.k = "prim" THEN ToString(pt.y)
    ELSE IF pt.k = "pair" THEN ToString(pt.x) \o "," \o ToString(pt.y)
    ELSE IF pt.k = "short" THEN ""
    ELSE IF pt.k = "null" THEN "null"
    ELSE "[object Object]"

\* The ascending sort of a finite set of integers
RECURSIVE SortedSeq(_)
SortedSeq(S) ==
    IF S = {} THEN <<>>
    ELSE LET m == CHOOSE x \in S : \A y \in S : x <= y
         IN  <<m>> \o SortedSeq(S \ {m})

(***************************************************************************)
(* Serializers of the second variant.  Each returns the CSV text, "" for   *)
(* nothing to export, or Threw.                                            *)
(***************************************************************************)
\* getSeriesLegendName(series, seriesIndex).legendName, for the 1-based index i
SeriesLegendName(series, i) ==
    IF series.displayName # NoValue /\ series.displayName # "" THEN series.displayName
    ELSE IF series.name # NoValue /\ series.name # "" THEN series.name
    ELSE "Series " \o ToString(i)

\* getSeriesLegendName(series, seriesIndex).columnName
SeriesColumnName(i) == "Series_" \o ToString(i)

\* The date of one entry in exportTimeSeriesData (second variant): r says
\* whether the entry is skipped, makes toISOString throw, or lands at `when`.
\* timestamp > 1e10 ? timestamp : timestamp * 1000
EntryDate(e) ==
    IF e.k # "pair" THEN [r |-> "skip", when |-> 0]
    ELSE IF e.tk = "num"
         THEN [r |-> "ok", when |-> IF e.t > SecondsLimit THEN e.t ELSE e.t * 1000]
    ELSE IF e.tk = "iso" THEN [r |-> "ok", when |-> e.t]
    ELSE IF e.tk = "badstr" THEN [r |-> "throw", when |-> 0]
    ELSE [r |-> "skip", when |-> 0]

\* The series of data.series that exportTimeSeriesData processes
ProcessedSeries(ss) == {i \in 1..Len(ss) : ss[i].k = "obj" /\ IsArray(ss[i].values)}

\* result[dateTime][Series_i] read with `||` in place of `??`
RECURSIVE LastValueOrEmpty(_, _, _)
LastValueOrEmpty(es, j, when) ==
    IF j = 0 THEN ""
    ELSE IF EntryDate(es[j]).r = "ok" /\ EntryDate(es[j]).when = when
         THEN IF es[j].vk = "num" /\ es[j].v # 0 THEN ToString(es[j].v) ELSE ""
    ELSE LastValueOrEmpty(es, j - 1, when)


\* result[dateTime][Series_i]: the value of the last entry of series i at when,
\* as a cell string ('' for undefined, by `?? ''`)
RECURSIVE LastValueAt2(_, _, _)
LastValueAt2(es, j, when) ==
    IF j = 0 THEN ""
    ELSE IF EntryDate(es[j]).r = "ok" /\ EntryDate(es[j]).when = when
         THEN IF es[j].vk = "num" THEN ToString(es[j].v) ELSE ""
    ELSE LastValueAt2(es, j - 1, when)

\* The data rows of exportTimeSeriesData (second variant): the keys of
\* `result` in sorted order, each with the cells of the columns
TimeSeriesRows2(p) ==
    LET ss == p.series.a
        proc == ProcessedSeries(ss)
        cols == SortedSeq(proc)
        dates == UNION {{EntryDate(ss[i].values.a[j]) : j \in 1..Len(ss[i].values.a)} :
                           i \in proc}
        times == SortedSeq({d.when : d \in {x \in dates : x.r = "ok"}})
    IN  [r \in 1..Len(times) |->
            [when |-> times[r],
             cells |-> [c \in 1..Len(cols) |->
                           LastValueAt2(ss[cols[c]].values.a, Len(ss[cols[c]].values.a),
                                        times[r])]]]

exportTimeSeriesData2(p) ==
    IF ~(Truthy(p.series) /\ IsArray(p.series) /\ Len(p.series.a) > 0) THEN ""
    ELSE LET ss == p.series.a
             proc == ProcessedSeries(ss)
             cols == SortedSeq(proc)
         IN  IF \E i \in proc : \E j \in 1..Len(ss[i].values.a) :
                    EntryDate(ss[i].values.a[j]).r = "throw"
             THEN Threw
             ELSE "# Legend Information:\n"
                  \o Concat([c \in 1..Len(cols) |->
                        "# " \o SeriesColumnName(cols[c]) \o ": "
                             \o SeriesLegendName(ss[cols[c]], cols[c]) \o "\n"])
                  \o "#\n"
                  \o "DateTime," \o Join([c \in 1..Len(cols) |-> SeriesColumnName(cols[c])], ",") \o "\n"
                  \o Concat([r \in 1..Len(TimeSeriesRows2(p)) |->
                        toISOString(TimeSeriesRows2(p)[r].when) \o ","
                          \o Join(TimeSeriesRows2(p)[r].cells, ",") \o "\n"])

\* a value interpolated into a template string
Str(x) == IF x = NoValue THEN "undefined" ELSE x

\* an element as Array.prototype.join renders it: undefined gives ''
JoinStr(x) == IF x = NoValue THEN "" ELSE x

\* col.name: undefined for a column that is a plain string
ColName(col) == IF col.k = "obj" THEN col.name ELSE NoValue

\* row[col.name]
Lookup(row, name) ==
    IF \E i \in 1..Len(row.entries) : row.entries[i][1] = name
    THEN row.entries[CHOOSE i \in 1..Len(row.entries) : row.entries[i][1] = name][2]
    ELSE CellUndef

\* column.displayName || column.name
ColumnHeader(col) ==
    IF col.displayName # NoValue /\ col.displayName # "" THEN col.displayName ELSE ColName(col)

\* The cell escaping of exportTableData (second variant): only a string that
\* holds a comma is quoted.
TableCell2(cell) ==
    IF cell.k \in {"null", "undef"} THEN ""
    ELSE IF cell.k = "str" /\ Includes(cell.s, ",") THEN "\"" \o ReplaceQuotes(cell.s) \o "\""
    ELSE Concat(cell.s)

exportTableData2(p) ==
    IF ~Truthy(p.columns) \/ ~Truthy(p.rows) THEN ""
    ELSE IF ~IsArray(p.columns) THEN Threw  \* for..of / map over a non-array
    ELSE IF \E i \in 1..Len(p.columns.a) : p.columns.a[i].k = "null" THEN Threw
    ELSE IF ~IsArray(p.rows) THEN Threw
    ELSE IF Len(p.columns.a) > 0 /\ \E r \in 1..Len(p.rows.a) : p.rows.a[r].k = "null" THEN Threw
    ELSE LET cs == p.columns.a
             rs == p.rows.a
         IN  "# Column Information:\n"
             \o Concat([c \in 1..Len(cs) |->
                   "# " \o Str(ColName(cs[c])) \o ": " \o Str(ColumnHeader(cs[c])) \o "\n"])
             \o "#\n"
             \o Join([c \in 1..Len(cs) |-> JoinStr(ColumnHeader(cs[c]))], ",") \o "\n"
             \o Concat([r \in 1..Len(rs) |->
                   Join([c \in 1..Len(cs) |-> TableCell2(Lookup(rs[r], Str(ColName(cs[c]))))], ",")
                     \o "\n"])

\* series.displayName || series.name
BarSeriesName(series) ==
    IF series.displayName # NoValue /\ series.displayName # "" THEN series.displayName
    ELSE IF series.name # "" THEN series.name ELSE NoValue

\* series.data[i] of the bar chart rows (i is 1-based here)
BarValue2(series, i) ==
    IF IsArray(series.data) /\ i <= Len(series.data.a) THEN PointStr(series.data.a[i]) ELSE ""

exportBarChartData2(p) ==
    IF ~Truthy(p.categories) \/ ~Truthy(p.series) THEN ""
    ELSE IF ~IsArray(p.series) THEN Threw  \* data.series.map is not a function
    ELSE IF /\ IsArray(p.categories) /\ Len(p.categories.a) > 0
            /\ \E k \in 1..Len(p.series.a) :
                   p.series.a[k].k = "null" \/ ~Truthy(p.series.a[k].data)
         THEN Threw  \* series.data[i] of null / of undefined
    ELSE LET ss == p.series.a
             cats == IF IsArray(p.categories) THEN p.categories.a ELSE <<>>
         IN  "# Axis Information:\n"
             \o "# Series Information:\n"
             \o Concat([k \in 1..Len(ss) |->
                   IF ss[k].k = "null" THEN ""
                   ELSE "# " \o SeriesColumnName(k) \o ": " \o Str(BarSeriesName(ss[k])) \o "\n"])
             \o "#\n"
             \o "Category," \o Join([k \in 1..Len(ss) |-> SeriesColumnName(k)], ",") \o "\n"
             \o Concat([i \in 1..Len(cats) |->
                   cats[i] \o ","
                     \o Join([k \in 1..Len(ss) |-> BarValue2(ss[k], i)], ",") \o "\n"])

(***************************************************************************)
(* Serializers of the first variant.                                       *)
(***************************************************************************)
\* new Date(entry[0]).toISOString() of the first variant: no seconds-to-milliseconds
\* scaling; anything but a number or a parsable string throws.
EntryDate1(e) ==
    IF e.k = "pair" /\ e.tk \in {"num", "iso"} THEN [r |-> "ok", when |-> e.t]
    ELSE [r |-> "throw", when |-> 0]

\* The series the first variant processes: !series?.name || !Array.isArray(series.values)
ProcessedSeries1(ss) ==
    {i \in 1..Len(ss) : ss[i].k = "obj" /\ ss[i].name # NoValue /\ ss[i].name # ""
                        /\ IsArray(ss[i].values)}

\* The first-seen order of the distinct elements of a sequence ([...new Set(xs)])
RECURSIVE Unique(_)
Unique(xs) ==
    IF xs = <<>> THEN <<>>
    ELSE LET front == Unique(SubSeq(xs, 1, Len(xs) - 1))
             last == xs[Len(xs)]
         IN  IF \E i \in 1..Len(front) : front[i] = last THEN front ELSE Append(front, last)

\* result[dateTime][name] after all writes: the value of the last entry at when
\* among the series named `name`, scanning series i downwards from Len(ss)
RECURSIVE LastValueAt1(_, _, _, _, _)
LastValueAt1(ss, i, j, when, name) ==
    IF i = 0 THEN ""
    ELSE IF i \notin ProcessedSeries1(ss) \/ ss[i].name # name \/ j = 0
         THEN IF i = 1 THEN ""
              ELSE LastValueAt1(ss, i - 1,
                                IF IsArray(ss[i - 1].values) THEN Len(ss[i - 1].values.a) ELSE 0,
                                when, name)
    ELSE IF EntryDate1(ss[i].values.a[j]).when = when
         THEN IF ss[i].values.a[j].vk = "num" THEN ToString(ss[i].values.a[j].v) ELSE ""
    ELSE LastValueAt1(ss, i, j - 1, when, name)

\* The data rows of exportTimeSeriesData (first variant)
TimeSeriesRows1(p) ==
    LET ss == p.series.a
        proc == ProcessedSeries1(ss)
        order == SortedSeq(proc)
        names == Unique([c \in 1..Len(order) |-> ss[order[c]].name])
        dates == UNION {{EntryDate1(ss[i].values.a[j]) : j \in 1..Len(ss[i].values.a)} :
                           i \in proc}
        times == SortedSeq({d.when : d \in {x \in dates : x.r = "ok"}})
    IN  [r \in 1..Len(times) |->
            [when |-> times[r],
             cells |-> [c \in 1..Len(names) |->
                           LastValueAt1(ss, Len(ss),
                                        IF IsArray(ss[Len(ss)].values)
                                        THEN Len(ss[Len(ss)].values.a) ELSE 0,
                                        times[r], names[c])]]]

exportTimeSeriesData1(p) ==
    IF ~(Truthy(p.series) /\ IsArray(p.series) /\ Len(p.series.a) > 0) THEN ""
    ELSE LET ss == p.series.a
             proc == ProcessedSeries1(ss)
             order == SortedSeq(proc)
             names == Unique([c \in 1..Len(order) |-> ss[order[c]].name])
             dates == UNION {{EntryDate1(ss[i].values.a[j]) : j \in 1..Len(ss[i].values.a)} :
                                i \in proc}
         IN  IF \E d \in dates : d.r = "throw" THEN Threw
             ELSE "DateTime," \o Join(names, ",") \o "\n"
                  \o Concat([r \in 1..Len(TimeSeriesRows1(p)) |->
                        toISOString(TimeSeriesRows1(p)[r].when) \o ","
                          \o Join(TimeSeriesRows1(p)[r].cells, ",") \o "\n"])

\* s.data[i] ?? '' (i is 1-based here)
BarValue1(series, i) ==
    IF IsArray(series.data) /\ i <= Len(series.data.a) /\ series.data.a[i].k # "null"
    THEN PointStr(series.data.a[i]) ELSE ""

\* d.series || 'Value'
TupleSeries(d) == IF d.series # NoValue /\ d.series # "" THEN d.series ELSE "Value"

\* data.data?.find(d => d.category === category && (d.series || 'Value') === seriesName)?.value ?? ''
TupleValue(ds, category, seriesName) ==
    IF \E i \in 1..Len(ds) : ds[i].category = category /\ TupleSeries(ds[i]) = seriesName
    THEN LET first == CHOOSE i \in 1..Len(ds) :
                          /\ ds[i].category = category /\ TupleSeries(ds[i]) = seriesName
                          /\ \A j \in 1..(i - 1) :
                                 ~(ds[j].category = category /\ TupleSeries(ds[j]) = seriesName)
         IN  IF ds[first].value = NoNum THEN "" ELSE ToString(ds[first].value)
    ELSE ""

\* Math.max(...data.series.map(s => s.data.length)); -Infinity (no rows) when empty
MaxDataLength(ss) ==
    IF ss = <<>> \/ \E k \in 1..Len(ss) : ~IsArray(ss[k].data) THEN 0
    ELSE LET lens == {IF IsArray(ss[k].data) THEN Len(ss[k].data.a) ELSE 0 : k \in 1..Len(ss)}
         IN  CHOOSE m \in lens : \A n \in lens : n <= m

exportBarChartData1(p) ==
    IF Truthy(p.categories) /\ Truthy(p.series) THEN
        IF ~IsArray(p.series) THEN Threw
        ELSE IF \E k \in 1..Len(p.series.a) : p.series.a[k].k = "null" THEN Threw
        ELSE IF /\ IsArray(p.categories) /\ Len(p.categories.a) > 0
                /\ \E k \in 1..Len(p.series.a) : ~Truthy(p.series.a[k].data)
             THEN Threw
        ELSE LET ss == p.series.a
                 cats == IF IsArray(p.categories) THEN p.categories.a ELSE <<>>
             IN  "Category," \o Join([k \in 1..Len(ss) |-> JoinStr(ss[k].name)], ",") \o "\n"
                 \o Concat([i \in 1..Len(cats) |->
                       cats[i] \o ","
                         \o Join([k \in 1..Len(ss) |-> BarValue1(ss[k], i)], ",") \o "\n"])
    ELSE IF Truthy(p.data) /\ IsArray(p.data) THEN
        LET ds == p.data.a
            seriesNames == Unique([i \in 1..Len(ds) |-> TupleSeries(ds[i])])
            categories == Unique([i \in 1..Len(ds) |-> ds[i].category])
        IN  "Category," \o Join(seriesNames, ",") \o "\n"
            \o Concat([c \in 1..Len(categories) |->
                  categories[c] \o ","
                    \o Join([k \in 1..Len(seriesNames) |->
                          TupleValue(ds, categories[c], seriesNames[k])], ",") \o "\n"])
    ELSE IF Truthy(p.series) /\ ~Truthy(p.categories) THEN
        IF ~IsArray(p.series) THEN Threw
        ELSE IF \E k \in 1..Len(p.series.a) :
                    p.series.a[k].k = "null" \/ ~Truthy(p.series.a[k].data)
             THEN Threw
        ELSE LET ss == p.series.a
             IN  "Index," \o Join([k \in 1..Len(ss) |-> JoinStr(ss[k].name)], ",") \o "\n"
                 \o Concat([i \in 1..MaxDataLength(ss) |->
                       ToString(i - 1) \o ","
                         \o Join([k \in 1..Len(ss) |-> BarValue1(ss[k], i)], ",") \o "\n"])
    ELSE ""

\* String(column) of a columns element, as columns.join(',') renders it
ColumnJoinStr(col) ==
    IF col.k = "str" THEN col.name ELSE IF col.k = "null" THEN "" ELSE "[object Object]"

\* The cell escaping of the first variant's exportTableData and exportGenericData
EscapeCell1(cell) ==
    IF cell.k \in {"null", "undef"} THEN ""
    ELSE IF Includes(cell.s, ",") \/ Includes(cell.s, "\"") \/ Includes(cell.s, "\n")
         THEN "\"" \o ReplaceQuotes(cell.s) \o "\""
    ELSE Concat(cell.s)

exportTableData1(p) ==
    IF ~Truthy(p.columns) \/ ~Truthy(p.rows) THEN ""
    ELSE IF ~IsArray(p.columns) \/ ~IsArray(p.rows) THEN Threw
    ELSE IF \E r \in 1..Len(p.rows.a) : p.rows.a[r].k # "arr" THEN Threw  \* row.map
    ELSE Join([c \in 1..Len(p.columns.a) |-> ColumnJoinStr(p.columns.a[c])], ",") \o "\n"
         \o Concat([r \in 1..Len(p.rows.a) |->
               Join([c \in 1..Len(p.rows.a[r].entries) |->
                         EscapeCell1(p.rows.a[r].entries[c][2])], ",") \o "\n"])

(***************************************************************************)
(* exportGenericData of the first variant.  The keys of a payload object   *)
(* are taken in the order series, columns, rows, categories, data, spans,  *)
(* labels, datasets; the unparsable date string of the inputs is "bad".    *)
(***************************************************************************)
\* The element x of the array property `key` as an item of exportGenericData:
\* a primitive, null, or an object with its own entries as cells
GenericItem(key, x) ==
    LET commas(cs) == IF cs = <<>> THEN <<>>
                      ELSE [i \in 1..(2 * Len(cs) - 1) |->
                               IF i % 2 = 0 THEN "," ELSE cs[(i + 1) \div 2]]
        entryParts(e) ==
            IF e.k # "pair" THEN <<"">>
            ELSE <<IF e.tk = "num" THEN (IF e.t = 0 THEN "0" ELSE ToString(e.t) \o "0000")
                   ELSE IF e.tk = "iso" THEN toISOString(e.t) ELSE "bad",
                   IF e.vk = "num" THEN ToString(e.v) ELSE "">>
        pointParts(pt) ==
            IF pt.k = "pair" THEN <<ToString(pt.x), ToString(pt.y)>>
            ELSE IF pt.k = "null" THEN <<"">>
            ELSE <<PointStr(pt)>>
        \* String(array) as characters: the elements joined with commas
        arrayCell(f, parts(_)) ==
            IF f.k = "null" THEN Cell("null", <<>>)
            ELSE IF f.k = "other" THEN Cell("obj", <<"[object Object]">>)
            ELSE Cell("arr", IF Len(f.a) = 1 THEN commas(parts(f.a[1]))
                             ELSE commas([i \in 1..Len(f.a) |-> Join(parts(f.a[i]), ",")]))
        opt(name, v) == IF v = NoValue THEN <<>> ELSE << <<name, Cell("str", <<v>>)>> >>
        optArr(name, f, parts(_)) ==
            IF HasKey(f) THEN << <<name, arrayCell(f, parts)>> >> ELSE <<>>
    IN  IF key = "rows" THEN x
        ELSE IF key \in {"categories", "labels", "spans"} THEN RowPrim
        ELSE IF key = "data"
             THEN RowObj(<< <<"category", Cell("str", <<x.category>>)>>,
                            <<"value", IF x.value = NoNum THEN CellUndef
                                       ELSE Cell("num", <<ToString(x.value)>>)>> >>
                         \o opt("series", x.series))
        ELSE IF x.k = "null" THEN RowNull
        ELSE IF x.k = "str" THEN RowPrim
        ELSE IF key = "columns"
             THEN RowObj(opt("name", x.name) \o opt("displayName", x.displayName))
        ELSE IF key = "datasets"
             THEN RowObj(opt("label", x.label) \o optArr("data", x.data, pointParts))
        ELSE RowObj(opt("name", x.name) \o optArr("values", x.values, entryParts)
                    \o optArr("data", x.data, pointParts))

exportGenericData(p) ==
    LET order == <<"series", "columns", "rows", "categories", "data", "spans", "labels",
                   "datasets">>
        \* the Array.isArray(data) branch
        ofArray(items) ==
            IF Len(items) = 0 \/ items[1].k = "prim" THEN ""
            ELSE IF items[1].k = "null" THEN Threw  \* Object.keys(null)
            ELSE LET keys == [i \in 1..Len(items[1].entries) |-> items[1].entries[i][1]]
                 IN  IF Len(keys) > 0 /\ \E r \in 1..Len(items) : items[r].k = "null"
                     THEN Threw  \* item[key] of null
                     ELSE Join(keys, ",") \o "\n"
                          \o Concat([r \in 1..Len(items) |->
                                Join([c \in 1..Len(keys) |->
                                         EscapeCell1(Lookup(items[r], keys[c]))], ",") \o "\n"])
        nonEmpty == {i \in 1..Len(order) : IsArray(p[order[i]]) /\ Len(p[order[i]].a) > 0}
        first == order[CHOOSE i \in nonEmpty : \A j \in nonEmpty : i <= j]
    IN  IF p.k = "array" THEN ofArray(p.items)
        ELSE IF p.k # "object" THEN ""
        ELSE IF nonEmpty # {}
             THEN ofArray([i \in 1..Len(p[first].a) |-> GenericItem(first, p[first].a[i])])
        ELSE "Property,Value\n"
             \o Concat([i \in 1..Len(order) |->
                   IF ~HasKey(p[order[i]]) THEN ""
                   ELSE order[i] \o ","
                          \o (IF p[order[i]].k = "other" THEN "[object Object]" ELSE "")
                          \o "\n"])


(***************************************************************************)
(* What PanelHeader hands to PanelActions as `queryResults`: undefined, a  *)
(* payload, one raw QueryData record, or the raw QueryData array.          *)
(***************************************************************************)
HandedPayload(p) ==
    [k |-> IF p.k = "undefined" THEN "undefined" ELSE "payload", p |-> p, qs |-> <<>>]

HandedQuery(q) == [k |-> "query", p |-> Undef, qs |-> <<q>>]

HandedQueries(qs) == [k |-> "queries", p |-> Undef, qs |-> qs]

HandedThrew == [k |-> "threw", p |-> Undef, qs |-> <<>>]

\* panelType = 'timeseries' is the default of the prop
PanelType(h) == IF h = NoValue THEN "timeseries" ELSE h

\* The switch of dataForExport for one query.data that is truthy
MatchesPanelType(p, panelType) ==
    \/ panelType = "timeseries" /\ isTimeSeriesData(p)
    \/ panelType = "bar" /\ isBarChartData(p)
    \/ panelType = "table" /\ isTableData(p)
    \/ panelType = "other"

\* dataForExport of PanelHeader (first variant)
dataForExport(results, panelType) ==
    IF Len(results) = 0 THEN HandedPayload(Undef)
    ELSE IF \E i \in 1..Len(results) :
                results[i].data.k # "undefined" /\ MatchesPanelType(results[i].data, panelType)
         THEN HandedPayload(results[
                  CHOOSE i \in 1..Len(results) :
                      /\ results[i].data.k # "undefined"
                      /\ MatchesPanelType(results[i].data, panelType)
                      /\ \A j \in 1..(i - 1) :
                             ~(results[j].data.k # "undefined"
                               /\ MatchesPanelType(results[j].data, panelType))].data)
    ELSE IF \E i \in 1..Len(results) : results[i].data.k # "undefined"
         THEN HandedPayload(results[
                  CHOOSE i \in 1..Len(results) :
                      /\ results[i].data.k # "undefined"
                      /\ \A j \in 1..(i - 1) : results[j].data.k = "undefined"].data)
    ELSE IF Len(results) = 1 THEN HandedQuery(results[1])
    ELSE HandedQueries(results)

\* The useMemo of PanelHeader (second variant): exportableData
exportableData(results) ==
    IF extractDataForExport(results).r = "throw" THEN HandedThrew
    ELSE HandedPayload(extractDataForExport(results).data)

\* ... and the dataType prop it passes on: dataType || detectedType, with
\* 'unknown' turned into undefined
detectedDataType(results, h) ==
    IF h # NoValue THEN h
    ELSE IF extractDataForExport(results).detectedType = "unknown" THEN NoValue
    ELSE extractDataForExport(results).detectedType

\* The queryResults prop of PanelActions under each variant
Handed(v, results, h) ==
    IF v = "second" THEN exportableData(results)
    ELSE IF v = "first" THEN dataForExport(results, PanelType(h))
    ELSE HandedQueries(results)

\* The dataType / panelType prop of PanelActions under each variant
HandedType(v, results, h) ==
    IF v = "second" THEN detectedDataType(results, h) ELSE PanelType(h)

(***************************************************************************)
(* PanelActions, first variant: shouldShowCsvExport and csvExportHandler.  *)
(***************************************************************************)
Guards1(p) == isTimeSeriesData(p) \/ isBarChartData(p) \/ isTableData(p)

shouldShowCsvExport(H, panelType) ==
    IF H.k = "undefined" THEN "false"
    ELSE IF panelType \in {"timeseries", "bar", "table"} THEN "true"
    ELSE IF H.k = "payload" /\ Guards1(H.p) THEN "true"
    ELSE IF H.k = "queries"
         THEN IF \E i \in 1..Len(H.qs) : Guards1(H.qs[i].data) THEN "true" ELSE "false"
    ELSE IF H.k = "payload" /\ H.p.k = "array"
         THEN IF \E i \in 1..Len(H.p.items) : H.p.items[i].k = "null"
              THEN Threw  \* query.data of a null item
              ELSE "false"
    ELSE "false"

Outcome(status, csv, filename) == [status |-> status, csv |-> csv, filename |-> filename]

Idle == Outcome("idle", "", "")

NoOp == Outcome("noop", "", "")

Thrown == Outcome("threw", "", "")

\* dataToExport of csvExportHandler after its two unwrapping steps: the
\* payload the type guards are applied to; r = "none" when it is no payload
\* (an array, a raw record, a `data` property), "throw" when the loop threw.
Target1(H) ==
    LET first ==
            IF H.k = "queries" /\ \E i \in 1..Len(H.qs) : Guards1(H.qs[i].data)
            THEN [r |-> "payload",
                  p |-> H.qs[CHOOSE i \in 1..Len(H.qs) :
                                 /\ Guards1(H.qs[i].data)
                                 /\ \A j \in 1..(i - 1) : ~Guards1(H.qs[j].data)].data]
            ELSE IF H.k = "payload" /\ H.p.k = "array"
                 THEN IF \E i \in 1..Len(H.p.items) : H.p.items[i].k = "null"
                      THEN [r |-> "throw", p |-> Undef]
                      ELSE [r |-> "none", p |-> Undef]
            ELSE IF H.k = "payload" THEN [r |-> "payload", p |-> H.p]
            ELSE [r |-> "none", p |-> Undef]
    IN  IF first.r = "payload" /\ first.p.k = "object" /\ HasKey(first.p.data)
        THEN [r |-> "none", p |-> Undef]  \* dataToExport = dataToExport.data
        ELSE first

\* csvString of csvExportHandler: the serializer the type guards select
Serialize1(p) ==
    IF isTimeSeriesData(p) THEN exportTimeSeriesData1(p)
    ELSE IF isBarChartData(p) THEN exportBarChartData1(p)
    ELSE IF isTableData(p) THEN exportTableData1(p)
    ELSE ""

csvExportHandler(H, panelType, t) ==
    IF H.k = "undefined" THEN NoOp
    ELSE IF Target1(H).r # "payload" THEN NoOp
    ELSE IF Serialize1(Target1(H).p) \in {Threw, ""} THEN NoOp
    ELSE Outcome("downloaded", Serialize1(Target1(H).p), t \o "_" \o panelType \o "Data.csv")

(***************************************************************************)
(* PanelActions, second variant: createCsvExportHandler.                   *)
(***************************************************************************)
Serialize2(p, type) ==
    IF type = "timeseries" THEN exportTimeSeriesData2(p)
    ELSE IF type = "table" THEN exportTableData2(p)
    ELSE exportBarChartData2(p)

createCsvExportHandler(t, H, dataType, clock) ==
    LET detectedType == IF dataType # NoValue THEN dataType ELSE detectDataType(H.p)
    IN  IF H.k = "undefined" THEN NoOp
        ELSE IF detectedType = Threw THEN Thrown
        ELSE IF detectedType \notin {"timeseries", "table", "barchart"} THEN NoOp
        ELSE IF Serialize2(H.p, detectedType) = Threw THEN Thrown
        ELSE Outcome("downloaded",
                     "# Chart: " \o t \o "\n"
                       \o "# Data Type: " \o detectedType \o "\n"
                       \o "# Exported: " \o toISOString(clock) \o "\n"
                       \o Serialize2(H.p, detectedType),
                     t \o "_" \o detectedType \o "_data.csv")

(***************************************************************************)
(* PanelActions: the action nodes computed by one render.  A node is       *)
(* "element" (a valid React element), "string" (a renderable text node) or *)
(* "none" (undefined, null or false: renders nothing).                     *)
(***************************************************************************)
Buckets == {"small", "medium", "large"}

Actions == {"description", "links", "stateIndicator", "extra", "read", "edit", "export", "move"}

\* the props PanelHeader passes for the current state
queryResultsProp == Handed(variant, queryResults, hint)

typeProp == HandedType(variant, queryResults, hint)

\* hasExportableDataCheck (second variant) / shouldShowCsvExport (first variant)
exportCheck ==
    IF variant = "upstream" THEN "false"
    ELSE IF queryResultsProp.k = "threw" THEN Threw
    ELSE IF variant = "second" THEN hasExportableData(queryResultsProp.p)
    ELSE shouldShowCsvExport(queryResultsProp, typeProp)

\* An exception leaves the render of PanelHeader / PanelActions
RenderThrows == exportCheck = Threw

csvExportButton == IF exportCheck = "true" THEN "element" ELSE "none"

descriptionAction == IF description = "text" THEN "element" ELSE "none"

linksAction == IF links = "some" THEN "element" ELSE "none"

extraActions == IF editHandlers THEN "none" ELSE extra

\* hasData of queryStateIndicator: the upstream side asks whether some
\* result has data; the stashed side and the second variant inspect the
\* value PanelHeader handed over.
hasData ==
    LET H == queryResultsProp
        p == H.p
        nonEmpty(f) == IsArray(f) /\ Len(f.a) > 0
    IN  IF variant = "upstream"
        THEN \E i \in 1..Len(queryResults) : queryResults[i].data.k # "undefined"
        ELSE IF H.k \in {"undefined", "threw"} THEN FALSE
        ELSE IF variant = "second"
             THEN nonEmpty(p.series) \/ nonEmpty(p.rows) \/ nonEmpty(p.categories)
        ELSE IF H.k = "queries" THEN Len(H.qs) > 0
        ELSE IF H.k = "query" THEN TRUE  \* Object.keys of a QueryData record
        ELSE IF p.k = "array" THEN Len(p.items) > 0
        ELSE IF p.k = "prim" THEN FALSE
        ELSE IF isTimeSeriesData(p) THEN nonEmpty(p.series)
        ELSE IF isBarChartData(p) THEN nonEmpty(p.data) \/ nonEmpty(p.series)
        ELSE IF isTableData(p) THEN nonEmpty(p.rows)
        ELSE IF HasKey(p.spans) THEN nonEmpty(p.spans)
        ELSE \E f \in {p.series, p.columns, p.rows, p.categories, p.data, p.labels, p.datasets} :
                 HasKey(f)


\* error?.message ?? error?.toString() ?? 'Unknown error'
ErrorText(e) == IF e = "noMessage" THEN "[object Object]" ELSE e

\* The state indicator: [kind, tooltip].  Only the upstream side computes
\* isFetching and queryErrors; the stashed side and the second variant set
\* isFetching = false and queryErrors = [].
queryStateIndicator ==
    LET isFetching == variant = "upstream" /\ \E i \in 1..Len(queryResults) : queryResults[i].isFetching
        queryErrors == IF variant = "upstream"
                       THEN SelectSeq(queryResults, LAMBDA q : q.error # NoValue)
                       ELSE <<>>
    IN  IF isFetching /\ hasData THEN [kind |-> "loading", tooltip |-> ""]
        ELSE IF Len(queryErrors) > 0
             THEN [kind |-> "error",
                   tooltip |-> Join([i \in 1..Len(queryErrors) |-> ErrorText(queryErrors[i].error)], "\n")]
        ELSE [kind |-> "none", tooltip |-> ""]

readActions == IF readHandlers # "none" THEN "element" ELSE "none"

editActions == IF editHandlers THEN "element" ELSE "none"

moveAction == IF editActions # "none" /\ readHandlers # "viewed" THEN "element" ELSE "none"

\* The node of each action
Node(a) ==
    CASE a = "description" -> descriptionAction
      [] a = "links" -> linksAction
      [] a = "stateIndicator" -> IF queryStateIndicator.kind = "none" THEN "none" ELSE "element"
      [] a = "extra" -> extraActions
      [] a = "read" -> readActions
      [] a = "edit" -> editActions
      [] a = "export" -> csvExportButton
      [] a = "move" -> moveAction
      [] OTHER -> "string"  \* the " " text between two expressions of a JSX line

\* OnHover: TRUE iff its children are shown only while the panel is hovered
OnHover == ~editHandlers /\ readHandlers # "viewed"

Slot(a, h) == [action |-> a, onHover |-> h]

\* The children of the OverflowMenu of each bucket, in order; <<>> with
\* hasMenu FALSE where the bucket has no OverflowMenu.
MenuChildren(v, b) ==
    IF b = "small" THEN
        <<"description", " ", "links", " ", "stateIndicator", " ", "extra", " ", "read", " ", "edit">>
          \o (IF v = "second" THEN <<"export">> ELSE <<>>)
    ELSE IF b = "medium" THEN
        <<"edit">> \o (IF v = "second" THEN <<"export">> ELSE <<>>)
    ELSE IF v = "second" THEN <<"export">> ELSE <<>>

hasMenu(v, b) == b # "large" \/ v = "second"

\* The slots of a render in which the read action sits outside OnHover
InlineSlotsReadAlways(v, b) ==
    IF b = "small" THEN <<Slot("move", TRUE)>>
    ELSE IF b = "medium" THEN
        <<Slot("description", TRUE), Slot("links", TRUE), Slot("stateIndicator", FALSE),
          Slot("extra", TRUE), Slot("read", FALSE), Slot("move", TRUE)>>
    ELSE
        <<Slot("description", TRUE), Slot("links", TRUE), Slot("stateIndicator", FALSE),
          Slot("extra", TRUE), Slot("read", FALSE), Slot("edit", TRUE), Slot("move", TRUE)>>


\* The slots rendered directly in the ConditionalBox of each bucket
InlineSlots(v, b) ==
    IF b = "small" THEN <<Slot("move", TRUE)>>
    ELSE IF b = "medium" THEN
        <<Slot("description", TRUE), Slot("links", TRUE), Slot("stateIndicator", FALSE),
          Slot("extra", TRUE), Slot("read", TRUE), Slot("move", TRUE)>>
    ELSE
        <<Slot("description", TRUE), Slot("links", TRUE), Slot("stateIndicator", FALSE),
          Slot("extra", TRUE), Slot("read", TRUE), Slot("edit", TRUE), Slot("move", TRUE)>>

\* OverflowMenu's hasContent: isValidElement(children) ||
\* (Array.isArray(children) && children.some(isValidElement))
hasContent(children) == \E i \in 1..Len(children) : Node(children[i]) = "element"

\* The menu button of bucket b is rendered
MenuRendered(b) == hasMenu(variant, b) /\ hasContent(MenuChildren(variant, b))

\* The rendering plan of bucket b: the producible actions shown inline, and
\* those shown inside the popover of a rendered overflow menu, as sequences
\* (an action placed twice appears twice).
Inline(b) ==
    SelectSeq([i \in 1..Len(InlineSlots(variant, b)) |-> InlineSlots(variant, b)[i].action],
              LAMBDA a : Node(a) # "none")

Overflow(b) ==
    IF MenuRendered(b)
    THEN SelectSeq(MenuChildren(variant, b), LAMBDA a : a \in Actions /\ Node(a) # "none")
    ELSE <<>>

\* Action a is displayed in the visible bucket: as an inline node, or as an
\* item of a rendered overflow menu.  The overflow menu of every bucket is a
\* child of OnHover, whose Box has display: var(--panel-hover, none).
Shown(a) ==
    \/ \E i \in 1..Len(InlineSlots(variant, bucket)) :
           /\ InlineSlots(variant, bucket)[i].action = a
           /\ Node(a) # "none"
           /\ (InlineSlots(variant, bucket)[i].onHover /\ OnHover) => hover
    \/ /\ \E i \in 1..Len(Overflow(bucket)) : Overflow(bucket)[i] = a
       /\ OnHover => hover


Producible == {a \in Actions : Node(a) # "none"}

\* how often x occurs in the sequence xs
Count(xs, x) == Cardinality({i \in 1..Len(xs) : xs[i] = x})

(***************************************************************************)
(* The useMemo cells.  A cell keeps its value while its dependency list is *)
(* the one of the render that computed it.                                 *)
(***************************************************************************)
\* a dependency list of the csvExportHandler cell that leaves the title out
HandlerDepsWithoutTitle(t, H, type) == <<H, type>>


\* the dependency list of the csvExportHandler cell: [title, queryResults, dataType]
HandlerDeps(t, H, type) == <<t, H, type>>

\* the cells before the first render
Unmounted ==
    [mounted |-> FALSE, hdr |-> [H |-> HandedThrew, type |-> NoValue], chk |-> "false",
     hnd |-> [t |-> "", H |-> HandedThrew, type |-> NoValue],
     btn |-> [shown |-> FALSE, onClick |-> [t |-> "", H |-> HandedThrew, type |-> NoValue]]]

\* One render of PanelHeader and PanelActions with the props `new` (the
\* result list, the hint and the title) over the cells m, which the render
\* with the props `old` left.  hdr is the cell of
\* PanelHeader, chk the export-availability cell, hnd the export handler
\* (the values its closure captured; no cell in the first variant, where the
\* handler is a new function in every render) and btn the export button.  A
\* cell is computed anew when its dependency list differs from the one of
\* the render before.
Render(m, v, old, new) ==
    LET hdrDeps(x) == IF v = "second" THEN <<x[1], x[2]>>
                      ELSE IF v = "first" THEN <<x[1], PanelType(x[2])>>
                      ELSE <<x[1]>>
        hdr == IF m.mounted /\ hdrDeps(old) = hdrDeps(new) THEN m.hdr
               ELSE [H |-> Handed(v, new[1], new[2]),
                     type |-> IF v = "second" THEN detectedDataType(new[1], new[2])
                              ELSE NoValue]
        typeOf(c, x) == IF v = "second" THEN c.type ELSE PanelType(x[2])
        H == hdr.H
        type == typeOf(hdr, new)
        oldH == m.hdr.H
        oldType == typeOf(m.hdr, old)
        chk == IF m.mounted /\ oldH = H /\ (v = "second" \/ oldType = type) THEN m.chk
               ELSE IF v = "upstream" THEN "false"
               ELSE IF H.k = "threw" THEN Threw
               ELSE IF v = "second" THEN hasExportableData(H.p)
               ELSE shouldShowCsvExport(H, type)
        hnd == IF /\ m.mounted /\ v = "second"
                  /\ HandlerDeps(old[3], oldH, oldType) = HandlerDeps(new[3], H, type)
               THEN m.hnd
               ELSE [t |-> new[3], H |-> H, type |-> type]
        btn == IF /\ m.mounted /\ v = "second"
                  /\ <<m.chk, m.hnd, oldType, oldH>> = <<chk, hnd, type, H>>
               THEN m.btn
               ELSE [shown |-> chk = "true", onClick |-> hnd]
    IN  [mounted |-> TRUE, hdr |-> hdr, chk |-> chk, hnd |-> hnd, btn |-> btn]

(***************************************************************************)
(* Inputs.                                                                 *)
(***************************************************************************)
Variants == {"second", "first", "passthrough", "upstream"}

\* the values of PanelHeader's dataType prop (second variant) and panelType
\* prop (the others); NoValue is the prop left out
Hints(v) ==
    IF v = "second" THEN {NoValue, "timeseries", "table", "barchart", "undefined"}
    ELSE {NoValue, "timeseries", "bar", "table", "other"}

TsA == SeriesObj("A", Arr(<<Entry("num", 0, "num", 1), Entry("num", 60, "num", 2)>>), Absent)

TsB == SeriesObj("B", Arr(<<Entry("num", 0, "num", 10)>>), Absent)

TsBad == SeriesObj("X", Arr(<<Entry("badstr", 0, "num", 1)>>), Absent)

BarS1 == SeriesObj("s1", Absent, Arr(<<Num(5)>>))

PlainSeries == SeriesObj("p", Absent, Absent)

SeriesVals ==
    {Absent, Null, Other, Arr(<<>>), Arr(<<TsA>>), Arr(<<TsA, TsB>>), Arr(<<BarS1>>),
     Arr(<<SeriesNull>>), Arr(<<TsA, SeriesNull>>), Arr(<<BarS1, SeriesNull>>),
     Arr(<<PlainSeries>>), Arr(<<TsBad>>), \* a series whose entries are out of order and whose later point is 0
     Arr(<<TsB, SeriesObj("Z", Arr(<<Entry("num", 60, "num", 0), Entry("num", 0, "num", 3)>>),
                          Absent)>>),
     \* a series with points and no name
     Arr(<<TsA, SeriesObj(NoValue, Arr(<<Entry("num", 30, "num", 7)>>), Absent)>>),
     \* one instant given in seconds and in milliseconds, and the number 1e10
     Arr(<<SeriesObj("S", Arr(<<Entry("num", 2000, "num", 1)>>), Absent),
           SeriesObj("M", Arr(<<Entry("num", 2000000, "num", 2),
                                Entry("num", SecondsLimit, "num", 3)>>), Absent)>>),
     \* two series of one name with a common timestamp
     Arr(<<TsB, TsA, SeriesObj("B", Arr(<<Entry("num", 0, "num", 4),
                                          Entry("num", 60, "num", 5)>>), Absent)>>)}

CategoriesVals == {Absent, Null, Other, Arr(<<>>), Arr(<<"a", "b">>)}

ColumnsVals ==
    {Absent, Null, Other, Arr(<<>>), Arr(<<Column("ns", "Namespace")>>),
     Arr(<<ColumnStr("ns")>>), Arr(<<ColumnNull>>)}

RowKube == RowObj(<< <<"ns", Cell("str", <<"kube-system">>)>> >>)

RowDefault == RowObj(<< <<"ns", Cell("str", <<"default">>)>> >>)

RowQuoted == RowObj(<< <<"ns", Cell("str", <<"a", "\"", "b">>)>> >>)

RowsVals ==
    {Absent, Null, Other, Arr(<<>>), Arr(<<RowKube, RowDefault>>), Arr(<<RowQuoted>>),
     Arr(<<RowArr(<<Cell("str", <<"x", ",", "y">>), Cell("num", <<"7">>)>>)>>),
     Arr(<<RowNull>>)}

TracePayload == [EmptyObj EXCEPT !.spans = Arr(<<"span">>)]

TimeSeriesPayload == [EmptyObj EXCEPT !.series = Arr(<<TsA, TsB>>)]

SpecialPayloads ==
    {Undef, Prim, EmptyObj, TracePayload,
     ArrayOf(<<>>), ArrayOf(<<RowKube, RowDefault>>), ArrayOf(<<RowNull>>),
     ArrayOf(<<RowPrim>>), ArrayOf(<<RowKube, RowNull>>),
     [EmptyObj EXCEPT !.data = Arr(<<Tuple("a", 1, NoValue), Tuple("b", 2, "s")>>)],
     [EmptyObj EXCEPT !.data = Arr(<<>>)],
     [EmptyObj EXCEPT !.data = Other],
     [EmptyObj EXCEPT !.labels = Arr(<<"a", "b">>),
                      !.datasets = Arr(<<Dataset("d", Arr(<<Num(5)>>))>>)],
     [EmptyObj EXCEPT !.labels = Arr(<<"a", "b">>), !.datasets = Other],
     [EmptyObj EXCEPT !.labels = Arr(<<"a">>), !.datasets = Arr(<<DatasetNull>>)],
     [EmptyObj EXCEPT !.datasets = Other],
     [EmptyObj EXCEPT !.datasets = Arr(<<Dataset("d", Arr(<<Point("pair", 1, 2)>>))>>)],
     [EmptyObj EXCEPT !.datasets = Arr(<<Dataset(NoValue, Arr(<<Point("obj", 1000, 0)>>))>>)],
     [EmptyObj EXCEPT !.datasets = Arr(<<Dataset("d", Arr(<<Point("pair", 1, 2),
                                                            Point("obj", 60, 7)>>)),
                                         Dataset("e", Arr(<<Point("obj", 0, 3)>>))>>)],
     [EmptyObj EXCEPT !.datasets = Arr(<<Dataset("d", Arr(<<Point("null", 0, 0)>>))>>)],
     [EmptyObj EXCEPT !.datasets = Arr(<<Dataset("d", Arr(<<Point("pair", 1, 2)>>)),
                                         Dataset("e", Absent)>>)],
     [EmptyObj EXCEPT !.datasets = Arr(<<Dataset("d", Arr(<<Num(5)>>))>>)],
     [EmptyObj EXCEPT !.series = Arr(<<TsA>>), !.columns = Arr(<<Column("ns", NoValue)>>),
                      !.rows = Arr(<<RowKube>>)]}

Payloads ==
    {[EmptyObj EXCEPT !.series = s, !.categories = c] : s \in SeriesVals, c \in CategoriesVals}
      \cup {[EmptyObj EXCEPT !.columns = c, !.rows = r] : c \in ColumnsVals, r \in RowsVals}
      \cup SpecialPayloads

\* the payloads of the results that precede the last one in a result list
LeadPayloads == {Undef, TracePayload, TimeSeriesPayload}

\* the longest result list of the export specification
MaxResults == 2

RECURSIVE Leads(_)
Leads(n) ==
    IF n = 0 THEN {<<>>}
    ELSE Leads(n - 1) \cup
         {Append(l, Query(p, FALSE, NoValue)) : l \in {x \in Leads(n - 1) : Len(x) = n - 1},
                                                p \in LeadPayloads}

ResultLists ==
    {<<>>} \cup {Append(l, Query(p, FALSE, NoValue)) : l \in Leads(MaxResults - 1), p \in Payloads}

\* the result lists of the layout specification
LayoutResults ==
    {<<>>,
     <<Query(TimeSeriesPayload, FALSE, NoValue)>>,
     <<Query(TimeSeriesPayload, TRUE, NoValue)>>,
     <<Query(TracePayload, FALSE, NoValue)>>,
     <<Query(Undef, TRUE, NoValue), Query(TimeSeriesPayload, FALSE, "boom")>>,
     <<Query(Undef, FALSE, "boom"), Query(Undef, FALSE, "bang")>>}

\* the last reading of the clock
MaxNow == 1

(***************************************************************************)
(* The layout specification: one mounted Panel whose props, width and      *)
(* pointer change, and whose overflow menus are opened and closed.         *)
(***************************************************************************)
Init ==
    /\ variant \in Variants
    /\ queryResults = <<>>
    /\ hint = NoValue
    /\ title = "Pods"
    /\ editHandlers = FALSE
    /\ readHandlers = "none"
    /\ description = "undefined"
    /\ links = "undefined"
    /\ extra = "none"
    /\ bucket = "large"
    /\ hover = FALSE
    /\ anchorPosition = [b \in Buckets |-> FALSE]
    /\ exported = Idle
    /\ now = 0
    /\ memo = Render(Unmounted, variant, <<queryResults, hint, title>>,
                     <<queryResults, hint, title>>)

\* The OverflowMenus after a render of PanelActions.  OnHover is a component
\* created in the body of PanelActions, of another type at every render, so
\* the OverflowMenus under it are unmounted and mounted anew, each with the
\* initial state of useState<PopoverPosition>(): no anchor position.
MountedMenus == [b \in Buckets |-> FALSE]

\* the data-queries context delivers a new result list (Panel.tsx:187)
ReplaceResults ==
    /\ \E rs \in LayoutResults : queryResults' = rs
    /\ memo' = Render(memo, variant, <<queryResults, hint, title>>,
                      <<queryResults', hint, title>>)
    /\ anchorPosition' = MountedMenus
    /\ UNCHANGED <<variant, hint, title, editHandlers, readHandlers, description, links,
                   extra, bucket, hover, exported, now>>

\* the dashboard enters or leaves edit mode: the editHandlers prop appears or goes
SetEditHandlers ==
    /\ editHandlers' = ~editHandlers
    /\ anchorPosition' = MountedMenus
    /\ UNCHANGED <<variant, queryResults, hint, title, readHandlers, description, links,
                   extra, bucket, hover, exported, now, memo>>

SetReadHandlers ==
    /\ \E r \in {"none", "notViewed", "viewed"} : readHandlers' = r
    /\ anchorPosition' = MountedMenus
    /\ UNCHANGED <<variant, queryResults, hint, title, editHandlers, description, links,
                   extra, bucket, hover, exported, now, memo>>

\* the panel definition changes: description and links (Panel.tsx:237-242)
SetDefinition ==
    /\ \E d \in {"undefined", "blank", "text"} : description' = d
    /\ \E l \in {"undefined", "empty", "some"} : links' = l
    /\ anchorPosition' = MountedMenus
    /\ UNCHANGED <<variant, queryResults, hint, title, editHandlers, readHandlers,
                   extra, bucket, hover, exported, now, memo>>

\* panelOptions.extra returns another node (Panel.tsx:235)
SetExtra ==
    /\ \E e \in {"none", "element", "string"} : extra' = e
    /\ anchorPosition' = MountedMenus
    /\ UNCHANGED <<variant, queryResults, hint, title, editHandlers, readHandlers,
                   description, links, bucket, hover, exported, now, memo>>

\* the panel's width changes and the header's container enters another
\* bucket; the content's width changes with it and useResizeObserver renders
\* the Panel
Resize ==
    /\ \E b \in Buckets : bucket' = b
    /\ anchorPosition' = MountedMenus
    /\ UNCHANGED <<variant, queryResults, hint, title, editHandlers, readHandlers,
                   description, links, extra, hover, exported, now, memo>>

MouseEnter ==
    /\ ~hover
    /\ hover' = TRUE
    /\ UNCHANGED <<variant, queryResults, hint, title, editHandlers, readHandlers,
                   description, links, extra, bucket, anchorPosition, exported, now, memo>>

MouseLeave ==
    /\ hover
    /\ hover' = FALSE
    /\ UNCHANGED <<variant, queryResults, hint, title, editHandlers, readHandlers,
                   description, links, extra, bucket, anchorPosition, exported, now, memo>>

\* the menu button of the visible bucket can be clicked
MenuButtonVisible ==
    /\ ~RenderThrows
    /\ MenuRendered(bucket)
    /\ OnHover => hover

\* the popover of the visible bucket is shown
PopoverShown == MenuRendered(bucket) /\ ~RenderThrows /\ anchorPosition[bucket]

\* OverflowMenu.handleClick
handleClick ==
    /\ MenuButtonVisible
    /\ anchorPosition' = [anchorPosition EXCEPT ![bucket] = TRUE]
    /\ UNCHANGED <<variant, queryResults, hint, title, editHandlers, readHandlers,
                   description, links, extra, bucket, hover, exported, now, memo>>

\* OverflowMenu.handleClose: the popover's onClose, or a click on its content row
handleClose ==
    /\ PopoverShown
    /\ anchorPosition' = [anchorPosition EXCEPT ![bucket] = FALSE]
    /\ UNCHANGED <<variant, queryResults, hint, title, editHandlers, readHandlers,
                   description, links, extra, bucket, hover, exported, now, memo>>

Next ==
    \/ ReplaceResults
    \/ SetEditHandlers
    \/ SetReadHandlers
    \/ SetDefinition
    \/ SetExtra
    \/ Resize
    \/ MouseEnter
    \/ MouseLeave
    \/ handleClick
    \/ handleClose

Spec == Init /\ [][Next]_vars

(***************************************************************************)
(* The export specification: the inputs of the classifier and of the       *)
(* serializers are drawn from ResultLists and Hints; the export button's   *)
(* click handler is run on them.                                           *)
(***************************************************************************)
ExportInit ==
    /\ variant \in Variants
    /\ queryResults \in ResultLists
    /\ hint \in Hints(variant)
    /\ title = "Pods"
    /\ editHandlers = FALSE
    /\ readHandlers = "none"
    /\ description = "undefined"
    /\ links = "undefined"
    /\ extra = "none"
    /\ bucket = "large"
    /\ hover = TRUE
    /\ anchorPosition = [b \in Buckets |-> FALSE]
    /\ exported = Idle
    /\ now = 0
    /\ memo = Render(Unmounted, variant, <<queryResults, hint, title>>,
                     <<queryResults, hint, title>>)

\* time passes
Tick ==
    /\ now < MaxNow
    /\ now' = now + 1
    /\ UNCHANGED <<variant, queryResults, hint, title, editHandlers, readHandlers,
                   description, links, extra, bucket, hover, anchorPosition, exported, memo>>

\* The onClick of the CSV export button runs.  In the second variant the
\* button lives in the popover of an overflow menu, and the click also
\* reaches the content row's onClick (handleClose); in the first variant the
\* button element is created but placed in no bucket, and the action is the
\* run of the handler it carries.
CsvExportClick ==
    /\ ~RenderThrows
    /\ csvExportButton = "element"
    /\ variant = "second" => PopoverShown
    /\ exported' = IF variant = "second"
                   THEN createCsvExportHandler(title, queryResultsProp, typeProp, now)
                   ELSE csvExportHandler(queryResultsProp, typeProp, title)
    /\ anchorPosition' = IF variant = "second"
                         THEN [anchorPosition EXCEPT ![bucket] = FALSE]
                         ELSE anchorPosition
    /\ UNCHANGED <<variant, queryResults, hint, title, editHandlers, readHandlers,
                   description, links, extra, bucket, hover, now, memo>>

ExportNext ==
    \/ Tick
    \/ handleClick
    \/ handleClose
    \/ CsvExportClick

ExportSpec == ExportInit /\ [][ExportNext]_vars

(***************************************************************************)
(* The re-render specification: the result list, the hint and the title of *)
(* a mounted panel are replaced, and every replacement renders.            *)
(***************************************************************************)
\* the dataType / panelType prop changes
SetDataType ==
    /\ \E h \in Hints(variant) : hint' = h
    /\ memo' = Render(memo, variant, <<queryResults, hint, title>>,
                      <<queryResults, hint', title>>)
    /\ anchorPosition' = MountedMenus
    /\ UNCHANGED <<variant, queryResults, title, editHandlers, readHandlers, description,
                   links, extra, bucket, hover, exported, now>>

\* the title changes (a variable of the raw title is replaced by another value)
SetTitle ==
    /\ \E t \in {"Pods", "Nodes"} : title' = t
    /\ memo' = Render(memo, variant, <<queryResults, hint, title>>,
                      <<queryResults, hint, title'>>)
    /\ anchorPosition' = MountedMenus
    /\ UNCHANGED <<variant, queryResults, hint, editHandlers, readHandlers, description,
                   links, extra, bucket, hover, exported, now>>

RenderSpec == Init /\ [][ReplaceResults \/ SetDataType \/ SetTitle]_vars

(***************************************************************************)
(* Claims.                                                                 *)
(***************************************************************************)
Shapes == {"timeseries", "table", "barchart"}

\* C1: for every combination of producible actions and each of the three
\* width buckets, the bucket's plan places every producible action exactly
\* once, inline or inside the overflow menu: none dropped, none twice.
C1_EveryProducibleActionPlacedOnce ==
    ~RenderThrows =>
        \A b \in Buckets : \A a \in Producible : Count(Inline(b) \o Overflow(b), a) = 1

\* C2: in the large bucket every producible action, CSV export included, is
\* inline and reachable without opening an overflow menu: the large plan's
\* overflow holds no action.
C2_LargeBucketAllInline ==
    ~RenderThrows =>
        /\ \A a \in Producible : Count(Inline("large"), a) = 1
        /\ Overflow("large") = <<>>

\* C3: in the small bucket only move can be inline (and only with edit
\* handlers on a panel that is not viewed); description, links, state
\* indicator, extra, read, edit and export, when producible, are all
\* children of the one overflow menu.
C3_SmallBucketCollapsesAllButMove ==
    ~RenderThrows =>
        /\ \A i \in 1..Len(Inline("small")) : Inline("small")[i] = "move"
        /\ Count(Inline("small"), "move") > 0 => editHandlers /\ readHandlers # "viewed"
        /\ \A a \in Producible \ {"move"} :
               hasMenu(variant, "small") /\ Count(MenuChildren(variant, "small"), a) = 1

\* C4: in the medium bucket description, links, state indicator, extra and
\* read are inline; edit and export are in the overflow menu; move is inline
\* exactly when edit handlers are supplied and isPanelViewed is not true.
C4_MediumBucketPlan ==
    ~RenderThrows =>
        /\ \A a \in Producible \cap {"description", "links", "stateIndicator", "extra", "read"} :
               Count(Inline("medium"), a) = 1
        /\ \A a \in Producible \cap {"edit", "export"} :
               /\ Count(Inline("medium"), a) = 0
               /\ hasMenu(variant, "medium") /\ Count(MenuChildren(variant, "medium"), a) = 1
        /\ Count(Inline("medium"), "move") = 1 <=> (editHandlers /\ readHandlers # "viewed")
        /\ Count(Inline("medium"), "move") <= 1

\* C5: an overflow menu button is rendered if and only if at least one of the
\* actions assigned to that menu is producible (an `extra` that is a string
\* included).
C5_MenuButtonIffProducibleChild ==
    ~RenderThrows =>
        \A b \in Buckets :
            hasMenu(variant, b) =>
                (MenuRendered(b) <=>
                     \E i \in 1..Len(MenuChildren(variant, b)) :
                         MenuChildren(variant, b)[i] \in Producible)

\* C6: the CSV export action is offered only when the data handed to
\* PanelActions is a payload of an exportable shape (time-series, table or
\* bar-chart); never for a trace payload, an unclassifiable payload or raw
\* query-result records, whatever the hint.
C6_ExportOfferedOnlyForExportableShape ==
    (~RenderThrows /\ csvExportButton = "element") =>
        /\ queryResultsProp.k = "payload"
        /\ IF variant = "second" THEN detectDataType(queryResultsProp.p) \in Shapes
           ELSE Guards1(queryResultsProp.p) /\ ~isTraceData(queryResultsProp.p)

\* C7: hasExportableData(payload) is false exactly when the serializer of the
\* shape returns the empty string, which is exactly when the shape's required
\* field is missing or empty (series for time-series; columns or rows for
\* table; categories or series for bar-chart).
C7_ExportableIffSerializerNonEmpty ==
    \A i \in 1..Len(queryResults) :
        LET p == queryResults[i].data
            nonEmpty(f) == IsArray(f) /\ Len(f.a) > 0
            required(s) == CASE s = "timeseries" -> nonEmpty(p.series)
                             [] s = "table" -> nonEmpty(p.columns) /\ nonEmpty(p.rows)
                             [] OTHER -> nonEmpty(p.categories) /\ nonEmpty(p.series)
        IN  /\ \A s \in Shapes : Serialize2(p, s) = "" <=> ~required(s)
            /\ hasExportableData(p) = "false" <=> \A s \in Shapes : Serialize2(p, s) = ""

\* C8: when the export handler has run and the serializer selected for the
\* shape returns the empty string, no download was triggered and nothing was
\* thrown.
C8_EmptySerializationIsNoOp ==
    LET H == queryResultsProp
        type == IF typeProp # NoValue THEN typeProp ELSE detectDataType(H.p)
        csv == IF variant = "second"
               THEN IF type \in Shapes THEN Serialize2(H.p, type) ELSE ""
               ELSE IF Target1(H).r = "payload" THEN Serialize1(Target1(H).p) ELSE ""
    IN  (exported # Idle /\ csv = "") => exported.status = "noop"

\* C9: for any input the classifier and every serializer degrade to no match
\* or empty output and never throw.
C9_ClassifierAndSerializersNeverThrow ==
    /\ extractDataForExport(queryResults).r # "throw"
    /\ \A i \in 1..Len(queryResults) :
           /\ detectDataType(queryResults[i].data) # Threw
           /\ \A s \in Shapes : Serialize2(queryResults[i].data, s) # Threw
    /\ ~RenderThrows
    /\ exported.status # "threw"

\* C10: a payload with a categories array and a series array is classified
\* TimeSeries when its series elements carry values arrays, and BarChart when
\* they carry data arrays and no values; a bar-chart-shaped payload is never
\* classified TimeSeries.
C10_CategoriesSeriesTieBreak ==
    \A i \in 1..Len(queryResults) :
        LET p == queryResults[i].data
            ss == p.series.a
            both == /\ p.k = "object" /\ IsArray(p.categories) /\ IsArray(p.series)
                    /\ Len(ss) > 0 /\ \A k \in 1..Len(ss) : ss[k].k = "obj"
            type == extractDataForExport(<<queryResults[i]>>).detectedType
        IN  /\ (both /\ \A k \in 1..Len(ss) : IsArray(ss[k].values)) =>
                   type = "timeseries" /\ detectDataType(p) = "timeseries"
            /\ (both /\ \A k \in 1..Len(ss) : IsArray(ss[k].data) /\ ~HasKey(ss[k].values)) =>
                   type = "barchart" /\ detectDataType(p) = "barchart"

\* The classification of the result list l is decided by one result, the
\* first in array order whose data matches a probe: the shape and payload
\* are that result's own, and they stay the same when the results after it
\* are removed, replaced or followed by others.  The same holds for the
\* payload the export handler picks out of a QueryData array.
FirstMatchDecides(l) ==
    LET r == extractDataForExport(l)
        t == Target1(HandedQueries(l))
        after(i) == {SubSeq(l, 1, i)} \cup
                    {SubSeq(l, 1, i) \o <<Query(p, FALSE, NoValue)>> :
                         p \in SpecialPayloads \cup LeadPayloads}
    IN  /\ r.r = "hit" =>
               \E i \in 1..Len(l) :
                   /\ ExtractOne(l[i].data) = r
                   /\ \A j \in 1..(i - 1) : ExtractOne(l[j].data).r = "skip"
                   /\ \A m \in after(i) : extractDataForExport(m) = r
        /\ t.r = "payload" =>
               \E i \in 1..Len(l) :
                   /\ l[i].data = t.p
                   /\ \A j \in 1..(i - 1) : ~Guards1(l[j].data)
                   /\ \A m \in after(i) : Target1(HandedQueries(m)) = t

\* The result lists whose classification the first match decides
FirstMatchLists == {l \in ResultLists : FirstMatchDecides(l)}

\* C11: the classification of the panel's result list is decided by the
\* first result in array order whose data matches a probe; the results after
\* it have no influence on the shape or on the payload.
C11_FirstMatchDecides == queryResults \in FirstMatchLists

\* C11 witness: two results that each match a probe, with different payloads
C11_Witness ==
    /\ Len(queryResults) = 2
    /\ ExtractOne(queryResults[1].data).r = "hit"
    /\ ExtractOne(queryResults[2].data).r = "hit"
    /\ ExtractOne(queryResults[2].data) # ExtractOne(queryResults[1].data)
    /\ extractDataForExport(queryResults) = ExtractOne(queryResults[1].data)

\* C12: when no result matches any known shape, classification yields the
\* shape unknown with an undefined payload, PanelActions is handed undefined
\* (never the raw result records), the export action is not offered and the
\* state indicator's has-data condition is false.
C12_NoMatchYieldsUnknownAndNothingOffered ==
    (\A i \in 1..Len(queryResults) :
         /\ ExtractOne(queryResults[i].data).r = "skip"
         /\ ~Guards1(queryResults[i].data)) =>
        /\ extractDataForExport(queryResults) = Skip
        /\ queryResultsProp.k = "undefined"
        /\ csvExportButton = "none"
        /\ ~hasData

\* C13: when the hint names a concrete shape, the payload selected for
\* export structurally matches the hinted shape, so the serializer the hint
\* selects is applied only to a payload of that shape; when the hint is
\* absent or names no concrete shape ('undefined', 'other'), the shape used
\* is the auto-detected one.
C13_HintSelectsMatchingPayload ==
    (~RenderThrows /\ variant \in {"second", "first"}) =>
        LET H == queryResultsProp
            concrete == IF variant = "second" THEN Shapes ELSE {"timeseries", "bar", "table"}
            matches == IF variant = "second" THEN detectDataType(H.p) = hint
                       ELSE MatchesPanelType(H.p, hint)
            auto == extractDataForExport(queryResults).detectedType
        IN  /\ (hint \in concrete /\ H.k = "payload") => matches
            /\ (hint \notin concrete /\ variant = "second") =>
                   typeProp = IF auto = "unknown" THEN NoValue ELSE auto

\* C14 (as stated): with no edit handlers and isPanelViewed not true, the
\* state indicator and the read action are visible in every bucket whether
\* or not the panel is hovered, while description, links, edit, move, export
\* and extra are visible only while it is hovered.
C14_ReadAndStateAlwaysVisible ==
    (~RenderThrows /\ ~editHandlers /\ readHandlers # "viewed") =>
        /\ \A a \in {"stateIndicator", "read"} \cap Producible : Shown(a)
        /\ \A a \in Actions \ {"stateIndicator", "read"} : Shown(a) => hover

\* C14 (amended): with no edit handlers and isPanelViewed not true, only the
\* state indicator of the medium and large buckets is visible whether or not
\* the panel is hovered; every other action, the read action included, and
\* everything in the small bucket is visible only while the panel is hovered.
C14_OnlyStateIndicatorIgnoresHover ==
    (~RenderThrows /\ ~editHandlers /\ readHandlers # "viewed") =>
        /\ (bucket # "small" /\ "stateIndicator" \in Producible) => Shown("stateIndicator")
        /\ \A a \in Actions \ {"stateIndicator"} : Shown(a) => hover
        /\ bucket = "small" => \A a \in Actions : Shown(a) => hover

\* C14 witness: an unhovered medium panel with a read action and a state
\* indicator: the indicator is displayed, the read action is not
C14_Witness ==
    /\ ~RenderThrows /\ ~editHandlers /\ readHandlers = "notViewed" /\ ~hover
    /\ bucket = "medium"
    /\ Shown("stateIndicator")
    /\ ~Shown("read")

\* C15: the state indicator is Loading exactly when some query result is
\* fetching and some query result already has data, also when some result
\* carries an error; it is never both Loading and Error.
C15_LoadingIffFetchingWithData ==
    ~RenderThrows =>
        (queryStateIndicator.kind = "loading" <=>
             /\ \E i \in 1..Len(queryResults) : queryResults[i].isFetching
             /\ \E i \in 1..Len(queryResults) : queryResults[i].data.k # "undefined")

\* C16: whenever some query result carries an error and the Loading condition
\* does not hold, the state indicator is Error and its tooltip holds one
\* message per erroring result, in result order, joined by newlines.
C16_ErrorIndicatorAggregatesMessages ==
    LET loading == /\ \E i \in 1..Len(queryResults) : queryResults[i].isFetching
                   /\ \E i \in 1..Len(queryResults) : queryResults[i].data.k # "undefined"
        erring == SelectSeq(queryResults, LAMBDA q : q.error # NoValue)
    IN  (~RenderThrows /\ Len(erring) > 0 /\ ~loading) =>
            /\ queryStateIndicator.kind = "error"
            /\ queryStateIndicator.tooltip =
                   Join([i \in 1..Len(erring) |-> ErrorText(erring[i].error)], "\n")

\* C17: the `extra` content of PanelOptions.extra is rendered only when the
\* panel is in edit mode, that is only when edit handlers are supplied.
C17_ExtraOnlyInEditMode ==
    ~RenderThrows =>
        \A b \in Buckets :
            (Count(Inline(b), "extra") > 0 \/ Count(Overflow(b), "extra") > 0) => editHandlers

\* The payloads that both time-series serializers turn into text
TimeSeriesPayloads ==
    {p \in Payloads \cup LeadPayloads :
        /\ p.k = "object" /\ IsArray(p.series) /\ Len(p.series.a) > 0
        /\ exportTimeSeriesData2(p) # Threw /\ exportTimeSeriesData1(p) # Threw}

\* Those of them among the current results
TimeSeriesInputs ==
    {queryResults[i].data : i \in 1..Len(queryResults)} \cap TimeSeriesPayloads

\* The rows are one per timestamp of `stamps`, in ascending order
OneRowPerStamp(rows, stamps) ==
    /\ {rows[r].when : r \in 1..Len(rows)} = stamps
    /\ Len(rows) = Cardinality(stamps)
    /\ \A r \in 1..(Len(rows) - 1) : rows[r].when < rows[r + 1].when

\* The timestamps of the series `which` of p under the date conversion `second`
StampsOf(p, which, second) ==
    UNION {{(IF second THEN EntryDate(p.series.a[i].values.a[j])
             ELSE EntryDate1(p.series.a[i].values.a[j])).when :
               j \in {k \in 1..Len(p.series.a[i].values.a) :
                        (IF second THEN EntryDate(p.series.a[i].values.a[k])
                         ELSE EntryDate1(p.series.a[i].values.a[k])).r = "ok"}} :
           i \in which}

\* In every row the cell of a column is empty when no series of the column
\* has a point at the row's timestamp, and is otherwise the number of the last
\* point there of the last such series, 0 included.  A column is a series in
\* the second variant and a series name in the first.
CellsAligned(p, rows, cols, second) ==
    LET ss == p.series.a
        date(e) == IF second THEN EntryDate(e) ELSE EntryDate1(e)
        nameOf(i) == IF second THEN SeriesColumnName(i) ELSE ss[i].name
        names == Unique([c \in 1..Len(cols) |-> nameOf(cols[c])])
        at(i, when) == {j \in 1..Len(ss[i].values.a) :
                         date(ss[i].values.a[j]).r = "ok" /\ date(ss[i].values.a[j]).when = when}
    IN  \A r \in 1..Len(rows) :
            /\ Len(rows[r].cells) = Len(names)
            /\ \A n \in 1..Len(names) :
                  LET having == {c \in 1..Len(cols) :
                                    nameOf(cols[c]) = names[n] /\ at(cols[c], rows[r].when) # {}}
                      i == cols[CHOOSE c \in having : \A d \in having : d <= c]
                      last == CHOOSE j \in at(i, rows[r].when) : \A k \in at(i, rows[r].when) : k <= j
                  IN  IF having = {} THEN rows[r].cells[n] = ""
                      ELSE ss[i].values.a[last].vk = "num"
                              => rows[r].cells[n] = ToString(ss[i].values.a[last].v)

RowsOfExportedSeries(p) ==
    \A rows2 \in {TimeSeriesRows2(p)}, rows1 \in {TimeSeriesRows1(p)},
       cols2 \in {ProcessedSeries(p.series.a)}, cols1 \in {ProcessedSeries1(p.series.a)} :
        /\ OneRowPerStamp(rows2, StampsOf(p, cols2, TRUE))
        /\ OneRowPerStamp(rows1, StampsOf(p, cols1, FALSE))
        /\ CellsAligned(p, rows2, SortedSeq(cols2), TRUE)
        /\ CellsAligned(p, rows1, SortedSeq(cols1), FALSE)

\* The payloads whose export is so
AlignedExports == {p \in TimeSeriesPayloads : RowsOfExportedSeries(p)}

NeedsQuoting(cell) ==
    /\ cell.k \notin {"null", "undef"}
    /\ Includes(cell.s, ",") \/ Includes(cell.s, "\"") \/ Includes(cell.s, "\n")

\* The payloads of the current results that are tables of the documented
\* shape: an array of column objects and an array of row objects
TableInputs ==
    {p \in {queryResults[i].data : i \in 1..Len(queryResults)} :
        /\ p.k = "object" /\ IsArray(p.columns) /\ IsArray(p.rows)
        /\ Len(p.columns.a) > 0 /\ Len(p.rows.a) > 0
        /\ \A c \in 1..Len(p.columns.a) : p.columns.a[c].k = "obj"
        /\ \A r \in 1..Len(p.rows.a) : p.rows.a[r].k = "obj"}

\* The payloads of the current results whose rows are arrays of cells, the
\* table shape of the first variant
ArrayRowInputs ==
    {p \in {queryResults[i].data : i \in 1..Len(queryResults)} :
        /\ p.k = "object" /\ IsArray(p.columns) /\ IsArray(p.rows)
        /\ \A r \in 1..Len(p.rows.a) : p.rows.a[r].k = "arr"}

\* C19: every table cell whose string form holds a comma, a double quote or
\* a newline is emitted wrapped in double quotes with each inner double
\* quote doubled, so that a CSV parser reads the original string back; also
\* when it holds a quote or a newline and no comma.
C19_SpecialCellsAreQuoted ==
    /\ \A p \in TableInputs : \A r \in 1..Len(p.rows.a) : \A c \in 1..Len(p.columns.a) :
           LET cell == Lookup(p.rows.a[r], Str(ColName(p.columns.a[c])))
           IN  NeedsQuoting(cell) => TableCell2(cell) = "\"" \o ReplaceQuotes(cell.s) \o "\""
    /\ \A p \in ArrayRowInputs : \A r \in 1..Len(p.rows.a) :
           \A c \in 1..Len(p.rows.a[r].entries) :
               LET cell == p.rows.a[r].entries[c][2]
               IN  NeedsQuoting(cell) => EscapeCell1(cell) = "\"" \o ReplaceQuotes(cell.s) \o "\""

\* C20: table export emits one header row with, per column in order, the
\* column's displayName when defined and its name otherwise, then exactly one
\* data row per entry of rows, in order, whose cell for a column is the string
\* form of row[column.name], empty for null or undefined; and no other line.
C20_TableExportIsHeaderPlusRows ==
    \A p \in TableInputs :
        LET cs == p.columns.a
            rs == p.rows.a
            cell(r, c) == Lookup(rs[r], Str(ColName(cs[c])))
            expected ==
                Join([c \in 1..Len(cs) |-> IF cs[c].displayName # NoValue
                                           THEN cs[c].displayName ELSE cs[c].name], ",") \o "\n"
                  \o Concat([r \in 1..Len(rs) |->
                        Join([c \in 1..Len(cs) |->
                                  IF cell(r, c).k \in {"null", "undef"} THEN ""
                                  ELSE Concat(cell(r, c).s)], ",") \o "\n"])
        IN  (\A r \in 1..Len(rs) : \A c \in 1..Len(cs) : ~NeedsQuoting(cell(r, c))) =>
                /\ exportTableData2(p) = expected
                /\ exportTableData1(p) = expected

\* The payloads of the current results that carry a categories array and a
\* series array of objects with a data array
BarInputs ==
    {p \in {queryResults[i].data : i \in 1..Len(queryResults)} :
        /\ p.k = "object" /\ IsArray(p.categories) /\ IsArray(p.series)
        /\ Len(p.series.a) > 0
        /\ \A k \in 1..Len(p.series.a) :
               p.series.a[k].k = "obj" /\ IsArray(p.series.a[k].data)}

\* The text `Category,<series names>` followed by one row per category in
\* order, the cell of series k in the row of category i being
\* series[k].data[i], empty when the index is missing
CategoryRows(p) ==
    LET ss == p.series.a
        cats == p.categories.a
    IN  "Category," \o Join([k \in 1..Len(ss) |-> JoinStr(ss[k].name)], ",") \o "\n"
        \o Concat([i \in 1..Len(cats) |->
              cats[i] \o ","
                \o Join([k \in 1..Len(ss) |->
                          IF i <= Len(ss[k].data.a) THEN PointStr(ss[k].data.a[i]) ELSE ""],
                        ",") \o "\n"])

\* C21: bar-chart export with categories and series emits the header
\* `Category,<series names>` and exactly one row per category in order; the
\* cell of series k in the row of category i is series[k].data[i], and is
\* empty when index i is missing from that series' data.
C21_BarExportIsCategoryRows ==
    \A p \in BarInputs :
        /\ exportBarChartData1(p) = CategoryRows(p)
        /\ exportBarChartData2(p) = CategoryRows(p)

\* p is a bar-chart payload given only as flattened tuples, with at least one
TupleOnly(p) ==
    /\ p.k = "object" /\ IsArray(p.data) /\ Len(p.data.a) > 0
    /\ ~HasKey(p.categories) /\ ~HasKey(p.series)

\* The text `Category,` and the unique series names ("Value" for a tuple
\* without series) in first-seen order, then one row per unique category in
\* first-seen order, each cell the value of the tuple of that category and
\* series, empty if there is none
TupleRows(p) ==
    LET ds == p.data.a
        nameOf(d) == IF d.series = NoValue THEN "Value" ELSE d.series
        names == Unique([i \in 1..Len(ds) |-> nameOf(ds[i])])
        cats == Unique([i \in 1..Len(ds) |-> ds[i].category])
        cell(c, n) ==
            LET at == {i \in 1..Len(ds) : ds[i].category = c /\ nameOf(ds[i]) = n}
            IN  IF at = {} THEN ""
                ELSE ToString(ds[CHOOSE i \in at : \A j \in at : i <= j].value)
    IN  "Category," \o Join(names, ",") \o "\n"
        \o Concat([c \in 1..Len(cats) |->
              cats[c] \o "," \o Join([n \in 1..Len(names) |-> cell(cats[c], names[n])], ",")
                \o "\n"])

\* C22: exporting a bar-chart payload given only as flattened data tuples,
\* with at least one tuple, produces a non-empty CSV: the header `Category,`
\* and the unique series names in first-seen order, then one row per unique
\* category, each cell the value of the matching tuple or empty.
C22_FlattenedTuplesAreExported ==
    (variant # "upstream" /\ Len(queryResults) = 1 /\ TupleOnly(queryResults[1].data)) =>
        LET p == queryResults[1].data
            out == IF variant = "second"
                   THEN createCsvExportHandler(title, queryResultsProp, typeProp, now)
                   ELSE csvExportHandler(queryResultsProp, typeProp, title)
        IN  /\ exportBarChartData1(p) = TupleRows(p)
            /\ out.status = "downloaded"
            /\ variant # "second" => out.csv = TupleRows(p)

\* The payloads of the current results that are generic: an array or a plain
\* object that no type guard of the first variant accepts
GenericInputs ==
    {p \in {queryResults[i].data : i \in 1..Len(queryResults)} :
        p.k \in {"array", "object"} /\ ~Guards1(p) /\ ~isTraceData(p)}

\* The first item's keys as header and one row per item, for an array of
\* objects none of whose cells needs quoting
ItemRows(items) ==
    LET keys == [i \in 1..Len(items[1].entries) |-> items[1].entries[i][1]]
    IN  Join(keys, ",") \o "\n"
        \o Concat([r \in 1..Len(items) |->
              Join([c \in 1..Len(keys) |->
                       IF Lookup(items[r], keys[c]).k \in {"null", "undef"} THEN ""
                       ELSE Concat(Lookup(items[r], keys[c]).s)], ",") \o "\n"])

\* C23: generic export is total over generic payloads: an array of objects
\* yields the first item's keys as header and one row per item; a plain
\* object yields the export of its array-valued property or, failing that,
\* the Property,Value dump, and never the empty string, also when its first
\* non-empty array property holds only primitives; and a generic payload is
\* routed to this serializer on export.
C23_GenericExportIsTotalAndRouted ==
    \A p \in GenericInputs :
        /\ exportGenericData(p) # Threw
        /\ (/\ p.k = "array" /\ Len(p.items) > 0
            /\ \A r \in 1..Len(p.items) :
                   /\ p.items[r].k = "obj"
                   /\ \A c \in 1..Len(p.items[r].entries) :
                          ~NeedsQuoting(p.items[r].entries[c][2]))
               => exportGenericData(p) = ItemRows(p.items)
        /\ p.k = "object" => exportGenericData(p) # ""
        /\ LET out == csvExportHandler(HandedPayload(p), "other", title)
           IN  out.status = "downloaded" /\ out.csv = exportGenericData(p)

\* C24: the CSV text produced by an export is a function of the payload, the
\* shape and the title only: the text of a finished export is the text the
\* same export yields at any other time.
C24_CsvTextIndependentOfTime ==
    exported.status = "downloaded" =>
        \A clock \in 0..MaxNow :
            exported.csv =
                (IF variant = "second"
                 THEN createCsvExportHandler(title, queryResultsProp, typeProp, clock)
                 ELSE csvExportHandler(queryResultsProp, typeProp, title)).csv

\* C25: after any sequence of wholesale result replacements, hint changes and
\* title changes, the payload and shape PanelHeader hands to PanelActions,
\* the export-availability flag, the export button and the export handler
\* are those of the current result list, hint and title: no cell holds a
\* value computed from an input that has been replaced.
C25_MemoizedValuesAreCurrent ==
    /\ memo.hdr.H = queryResultsProp
    /\ variant = "second" => memo.hdr.type = typeProp
    /\ memo.chk = exportCheck
    /\ memo.hnd = [t |-> title, H |-> queryResultsProp, type |-> typeProp]
    /\ memo.btn = [shown |-> csvExportButton = "element", onClick |-> memo.hnd]

\* C25 witness: the second variant offers the export after the result list,
\* the hint and the title have all been replaced
C25_Witness ==
    /\ variant = "second" /\ title = "Nodes" /\ hint = "table" /\ queryResults # <<>>
    /\ memo.btn.shown /\ memo.btn.onClick.t = "Nodes" /\ memo.btn.onClick.type = "table"

\* C26: the header-side classifier and the actions-side classifier agree:
\* whenever extractDataForExport reports timeseries, table or barchart with a
\* payload, detectDataType applied to that payload reports the same shape,
\* and so hasExportableData accepts it.
C26_ClassifiersAgree ==
    LET r == extractDataForExport(queryResults)
    IN  r.r = "hit" =>
            /\ r.detectedType \in Shapes
            /\ detectDataType(r.data) = r.detectedType
            /\ hasExportableData(r.data) = "true"

\* The text `DateTime` and the unique resolved names of the exported series
\* in first-seen order, then one row per timestamp whose cell for a name is
\* the value of the last point at that timestamp of the last series of that
\* name that has one
NamedColumnsText(p, second) ==
    LET ss == p.series.a
        date(e) == IF second THEN EntryDate(e) ELSE EntryDate1(e)
        cols == SortedSeq(IF second THEN ProcessedSeries(ss) ELSE ProcessedSeries1(ss))
        nameOf(i) == IF second THEN SeriesLegendName(ss[i], i) ELSE ss[i].name
        names == Unique([c \in 1..Len(cols) |-> nameOf(cols[c])])
        at(i, when) == {j \in 1..Len(ss[i].values.a) :
                         date(ss[i].values.a[j]).r = "ok" /\ date(ss[i].values.a[j]).when = when}
        times == SortedSeq(UNION {{date(ss[cols[c]].values.a[j]).when :
                                      j \in {k \in 1..Len(ss[cols[c]].values.a) :
                                               date(ss[cols[c]].values.a[k]).r = "ok"}} :
                                  c \in 1..Len(cols)})
        cell(n, when) ==
            LET having == {c \in 1..Len(cols) : nameOf(cols[c]) = n /\ at(cols[c], when) # {}}
                i == cols[CHOOSE c \in having : \A d \in having : d <= c]
                e == ss[i].values.a[CHOOSE j \in at(i, when) : \A k \in at(i, when) : k <= j]
            IN  IF having = {} THEN "" ELSE IF e.vk = "num" THEN ToString(e.v) ELSE ""
    IN  "DateTime," \o Join(names, ",") \o "\n"
        \o Concat([r \in 1..Len(times) |->
              toISOString(times[r]) \o ","
                \o Join([n \in 1..Len(names) |-> cell(names[n], times[r])], ",") \o "\n"])

\* C27: in time-series export the header is DateTime followed by the unique
\* resolved series names in first-seen order; two series that resolve to the
\* same name share one column, in which the later series wins at a common
\* timestamp; every data row has as many cells as the header.
C27_NamedColumnsLastWins ==
    \A p \in TimeSeriesInputs :
        /\ exportTimeSeriesData1(p) = NamedColumnsText(p, FALSE)
        /\ exportTimeSeriesData2(p) = NamedColumnsText(p, TRUE)


\* The instant the rule of C28 gives a numeric timestamp t: t milliseconds
\* above 1e10, t seconds otherwise
ClaimedInstant(t) == IF t > SecondsLimit THEN t ELSE t * 1000

\* The numeric-timestamp entries of the exported series of p
NumericEntries(p, cols) ==
    UNION {{p.series.a[i].values.a[j] :
               j \in {k \in 1..Len(p.series.a[i].values.a) :
                        /\ p.series.a[i].values.a[k].k = "pair"
                        /\ p.series.a[i].values.a[k].tk = "num"}} : i \in cols}

\* C28: in time-series export a numeric timestamp t is converted to a date as
\* t milliseconds when t > 1e10 and as t * 1000 milliseconds otherwise
\* (t = 1e10 itself is seconds); two points of different series that denote
\* the same instant, one given in seconds and one in milliseconds, land in
\* the same output row.
C28_SecondsAndMillisecondsMeet ==
    \A p \in TimeSeriesInputs :
        /\ \A e \in NumericEntries(p, ProcessedSeries(p.series.a)) :
              /\ EntryDate(e) = [r |-> "ok", when |-> ClaimedInstant(e.t)]
              /\ Cardinality({r \in 1..Len(TimeSeriesRows2(p)) :
                                 TimeSeriesRows2(p)[r].when = ClaimedInstant(e.t)}) = 1
        /\ \A e \in NumericEntries(p, ProcessedSeries1(p.series.a)) :
              /\ EntryDate1(e) = [r |-> "ok", when |-> ClaimedInstant(e.t)]
              /\ Cardinality({r \in 1..Len(TimeSeriesRows1(p)) :
                                 TimeSeriesRows1(p)[r].when = ClaimedInstant(e.t)}) = 1


\* A payload that reaches the `datasets` mapping of extractDataForExport: a
\* plain object without series, columns and labels whose datasets hold a
\* time-like point
DatasetsMapped(p) ==
    /\ p.k = "object" /\ ~HasKey(p.series) /\ ~HasKey(p.columns) /\ ~Truthy(p.labels)
    /\ Truthy(p.datasets) /\ IsArray(p.datasets)
    /\ hasTimeData(p.datasets.a, 1) = "true"

\* A point that states a time and a value: a [t, v] pair or an object with
\* both
StatesTimeAndValue(pt) == pt.k = "pair" \/ (pt.k = "obj" /\ pt.x # NoNum /\ pt.y # NoNum)

\* C29: when a datasets payload is mapped into TimeSeries every point keeps
\* its time and value, a time or value of 0 included ({x: 1000, y: 0} maps to
\* [1000, 0]); the number of series equals the number of datasets and the
\* number of values per series the number of points.
C29_DatasetsPointsKeepTimeAndValue ==
    \A i \in 1..Len(queryResults) :
        LET p == queryResults[i].data
            out == ExtractOne(p)
        IN  DatasetsMapped(p) =>
              /\ out.r = "hit" /\ out.detectedType = "timeseries"
              /\ Len(out.data.series.a) = Len(p.datasets.a)
              /\ \A d \in 1..Len(p.datasets.a) :
                    /\ Len(out.data.series.a[d].values.a) = Len(p.datasets.a[d].data.a)
                    /\ \A j \in 1..Len(p.datasets.a[d].data.a) :
                          StatesTimeAndValue(p.datasets.a[d].data.a[j]) =>
                              out.data.series.a[d].values.a[j]
                                = Entry("num", p.datasets.a[d].data.a[j].x,
                                        "num", p.datasets.a[d].data.a[j].y)


\* C30: the open state of an overflow menu changes only through its own
\* events: a click on its menu button opens it, the popover's close event or
\* a click on its content row closes it; a re-render caused by new query
\* results, a width-bucket change or changed props leaves it unchanged.
C30_MenuOpenStateChangesByItsOwnEvents ==
    [][anchorPosition' # anchorPosition =>
          /\ UNCHANGED <<queryResults, hint, title, editHandlers, readHandlers,
                         description, links, extra, bucket>>
          /\ \/ MenuButtonVisible /\ anchorPosition' = [anchorPosition EXCEPT ![bucket] = TRUE]
             \/ PopoverShown /\ anchorPosition' = [anchorPosition EXCEPT ![bucket] = FALSE]]_vars

====
